---- MODULE Spec2Model ----
(***************************************************************************)
(* Model of the TRVZB scheduler card: the schedule codec and normalizer    *)
(* (models/schedule.ts), the graph view's drag gesture machine             *)
(* (components/schedule-graph-view.ts), the day editor's add               *)
(* (components/day-schedule-editor.ts) and the card that applies every     *)
(* schedule-changed event to its weekly schedule, loads it from the day    *)
(* sensors and saves it (card.ts, services/ha-service.ts).                 *)
(*                                                                         *)
(* Representation.                                                         *)
(*   time         "HH:MM" is the record [h |-> HH, m |-> MM]; two time     *)
(*                strings are equal iff the records are equal.             *)
(*   temperature  a number of hundredths of a degree (2050 is 20.5).       *)
(*   temperature text  [w |-> whole part, f |-> sequence of the digits     *)
(*                after the point], f = <<>> when there is no point.       *)
(*   id           a positive number, NoId when the field is undefined.     *)
(*   day string   the sequence of its whitespace-separated tokens.         *)
(***************************************************************************)
EXTENDS Integers, Sequences, FiniteSets, TLC

VARIABLES
    \* ---- codec harness ----
    stage,          \* "idle" | "text" | "day" | "parsed" | "serialized" | "reparsed"
    text,           \* the day string at hand (sequence of tokens)
    day,            \* the transitions at hand
    srcDay,         \* the transitions that were serialized into text
    \* ---- card.ts ----
    schedule,       \* _schedule: day key -> transitions
    editingDay,     \* _editingDay, "none" when null
    hasUnsavedChanges,
    saving,         \* _saving
    error,          \* _error, "none" when null
    pendingSaveSchedule,  \* NoSent when null
    \* ---- models/schedule.ts ----
    transitionIdCounter,
    \* ---- schedule-graph-view.ts ----
    selectedDay,
    disabled,
    draggingPoint,  \* 0-based index, NoPoint when null
    dragStartX,
    dragStartY,
    isDragging,
    mouseListening, \* document listeners mousemove / mouseup attached
    touchListening, \* document listeners touchmove / touchend / touchcancel attached
    \* ---- day-schedule-editor.ts ----
    workingSchedule,
    \* ---- observation ----
    nEvents,        \* number of schedule-changed events dispatched so far
    lastEvent,      \* detail of the last schedule-changed event, and its dispatcher
    lastAdd,        \* outcome of the last add request
    g,              \* the gesture since the last press
    \* ---- services/ha-service.ts ----
    sent,           \* the payloads of the last save: day key -> day string
    sensors,        \* hass.states of the day sensors: day key -> sensor
    mqttSchedule,   \* saveSchedule's local: the payloads being published
    published,      \* number of days saveSchedule has called mqtt.publish for
    lastSave,       \* outcome of the last call of _saveSchedule
    \* ---- coordinate engine harness ----
    ptr,            \* a pointer position and the index of the dragged marker
    hit             \* the transition a move to ptr assigns

codecVars == <<stage, text, day, srcDay>>

cardVars ==
    <<schedule, editingDay, transitionIdCounter, workingSchedule, hasUnsavedChanges>>

saveVars == <<saving, error, pendingSaveSchedule, mqttSchedule, published, lastSave>>

gestureVars ==
    <<draggingPoint, dragStartX, dragStartY, isDragging, mouseListening, touchListening>>

viewVars == <<selectedDay, disabled>>

obsVars == <<nEvents, lastEvent, lastAdd, g>>

deviceVars == <<sent, sensors>>

engineVars == <<ptr, hit>>

vars ==
    <<codecVars, cardVars, gestureVars, viewVars, obsVars, deviceVars, engineVars, saveVars>>

\* ------------------------------------------------------------------------
\* Bounds
\* ------------------------------------------------------------------------
MaxTokens == 3      \* tokens in an input day string
MaxDayLen == 3      \* transitions in an input DaySchedule
MaxEvents == 2      \* schedule-changed events in one behaviour
MaxIds == 10        \* transition ids generated in one behaviour

\* ------------------------------------------------------------------------
\* Values
\* ------------------------------------------------------------------------
NoId == 0

Time(hh, mm) == [h |-> hh, m |-> mm]

MIDNIGHT == Time(0, 0)

Deg(n) == n * 100

DEFAULT_TEMP == Deg(20)

Tr(t, temp, i) == [time |-> t, temperature |-> temp, id |-> i]

TempText(whole, frac) == [w |-> whole, f |-> frac]

\* A token that matches /^(\d{2}:\d{2})\/(\d+(?:\.\d+)?)$/ carries the two
\* captured groups; any other token is malformed.
Token(t, tt) == [kind |-> "ok", time |-> t, temp |-> tt]

Malformed == [kind |-> "bad"]

\* ------------------------------------------------------------------------
\* utils/time.ts
\* ------------------------------------------------------------------------
Minutes(t) == t.h * 60 + t.m

\* negative, zero or positive as a is earlier than, equal to or later than b
compareTime(a, b) == Minutes(a) - Minutes(b)

\* ------------------------------------------------------------------------
\* models/schedule.ts
\* ------------------------------------------------------------------------
\* generateTransitionId: the n-th id generated after counter value ctr
generateTransitionId(ctr, n) == ctr + n

createEmptyDaySchedule(ctr) ==
    << Tr(MIDNIGHT, DEFAULT_TEMP, generateTransitionId(ctr, 1)) >>

RECURSIVE InsertSorted(_, _)
\* insert x after every element that does not compare greater than x
InsertSorted(x, s) ==
    IF s = <<>> THEN <<x>>
    ELSE IF compareTime(Head(s).time, x.time) <= 0
         THEN <<Head(s)>> \o InsertSorted(x, Tail(s))
         ELSE <<x>> \o s

RECURSIVE SortFrom(_, _)
SortFrom(acc, rest) ==
    IF rest = <<>> THEN acc
    ELSE SortFrom(InsertSorted(Head(rest), acc), Tail(rest))

\* [...transitions].sort(compareTime): Array.prototype.sort is stable
sortTransitions(transitions) == SortFrom(<<>>, transitions)

RECURSIVE DedupFrom(_, _, _, _)
\* seen: the times already kept; n: ids generated so far
DedupFrom(acc, rest, ctr, n) ==
    IF rest = <<>> THEN acc
    ELSE LET t == Head(rest)
         IN IF \E k \in 1..Len(acc) : acc[k].time = t.time
            THEN DedupFrom(acc, Tail(rest), ctr, n)
            ELSE IF t.id = NoId
                 THEN DedupFrom(Append(acc, Tr(t.time, t.temperature,
                                     generateTransitionId(ctr, n + 1))),
                                Tail(rest), ctr, n + 1)
                 ELSE DedupFrom(Append(acc, t), Tail(rest), ctr, n)

RECURSIVE FillIds(_, _, _)
FillIds(transitions, ctr, n) ==
    IF transitions = <<>> THEN <<>>
    ELSE LET t == Head(transitions)
         IN IF t.id = NoId
            THEN <<Tr(t.time, t.temperature, generateTransitionId(ctr, n + 1))>>
                 \o FillIds(Tail(transitions), ctr, n + 1)
            ELSE <<t>> \o FillIds(Tail(transitions), ctr, n)

removeDuplicateTransitions_keepAll(transitions, ctr) == FillIds(transitions, ctr, 0)

\* as removeDuplicateTransitions, had it kept the last transition of a time
removeDuplicateTransitions_keepLast(transitions, ctr) ==
    LET Reversed(s) == [k \in 1..Len(s) |-> s[Len(s) + 1 - k]]
    IN Reversed(DedupFrom(<<>>, Reversed(transitions), ctr, 0))

removeDuplicateTransitions(transitions, ctr) == DedupFrom(<<>>, transitions, ctr, 0)

\* the largest id in a list (the id counter after the ids were generated)
MaxId(transitions, ctr) ==
    LET ids == {transitions[k].id : k \in 1..Len(transitions)} \cup {ctr}
    IN CHOOSE x \in ids : \A y \in ids : y <= x

\* as ensureMidnightTransition, had it taken the temperature of the first
\* transition for the inserted one
ensureMidnightTransition_neighbour(transitions, ctr) ==
    LET hasMidnight == \E k \in 1..Len(transitions) : transitions[k].time = MIDNIGHT
        temp == IF transitions = <<>> THEN DEFAULT_TEMP ELSE transitions[1].temperature
    IN IF hasMidnight
       THEN sortTransitions(transitions)
       ELSE sortTransitions(<<Tr(MIDNIGHT, temp, generateTransitionId(ctr, 1))>>
                            \o transitions)

ensureMidnightTransition(transitions, ctr) ==
    LET hasMidnight == \E k \in 1..Len(transitions) : transitions[k].time = MIDNIGHT
    IN IF hasMidnight
       THEN sortTransitions(transitions)
       ELSE sortTransitions(<<Tr(MIDNIGHT, DEFAULT_TEMP, generateTransitionId(ctr, 1))>>
                            \o transitions)

\* parseFloat of a text that matched \d+(?:\.\d+)? (at most two decimals here)
parseFloat(tt) ==
    tt.w * 100
    + (IF Len(tt.f) = 0 THEN 0
       ELSE IF Len(tt.f) = 1 THEN tt.f[1] * 10
       ELSE tt.f[1] * 10 + tt.f[2])

RECURSIVE ParseTokens_stopAtMalformed(_, _, _)
\* as ParseTokens, had the loop stopped at the first malformed token
ParseTokens_stopAtMalformed(parts, ctr, n) ==
    IF parts = <<>> THEN <<>>
    ELSE IF Head(parts).kind = "ok"
         THEN <<Tr(Head(parts).time, parseFloat(Head(parts).temp),
                   generateTransitionId(ctr, n + 1))>>
              \o ParseTokens_stopAtMalformed(Tail(parts), ctr, n + 1)
         ELSE <<>>

RECURSIVE ParseTokens(_, _, _)
\* the for-loop of parseDaySchedule: malformed tokens are skipped
ParseTokens(parts, ctr, n) ==
    IF parts = <<>> THEN <<>>
    ELSE IF Head(parts).kind = "ok"
         THEN <<Tr(Head(parts).time, parseFloat(Head(parts).temp),
                   generateTransitionId(ctr, n + 1))>>
              \o ParseTokens(Tail(parts), ctr, n + 1)
         ELSE ParseTokens(Tail(parts), ctr, n)

parseDaySchedule(scheduleString, ctr) ==
    IF scheduleString = <<>> THEN createEmptyDaySchedule(ctr)
    ELSE LET transitions == ParseTokens(scheduleString, ctr, 0)
         IN IF Len(transitions) = 0 THEN createEmptyDaySchedule(ctr)
            ELSE LET deduplicated == removeDuplicateTransitions(transitions, ctr)
                 IN ensureMidnightTransition(deduplicated, MaxId(deduplicated, ctr))

\* Number.prototype.toFixed(0): the nearest integer, the larger one on a tie
toFixed0(temp) == TempText((temp + 50) \div 100, <<>>)

\* Number.prototype.toFixed(1): the nearest tenth, the larger one on a tie
\* (exact for the quarter-degree values used here)
toFixed1(temp) ==
    LET tenths == (temp + 5) \div 10
    IN TempText(tenths \div 10, <<tenths % 10>>)

formatTemperature_alwaysFixed0(temp) == toFixed0(temp)

\* as formatTemperature, had it printed one decimal place for every value
formatTemperature_alwaysFixed1(temp) == toFixed1(temp)

\* t.temperature % 1 === 0 ? toFixed(0) : toFixed(1)
formatTemperature(temp) ==
    IF temp % 100 = 0 THEN toFixed0(temp) ELSE toFixed1(temp)

serializeDaySchedule(transitions) ==
    LET deduplicated == removeDuplicateTransitions(transitions, 0)
        sorted == sortTransitions(deduplicated)
    IN [k \in 1..Len(sorted) |->
            Token(sorted[k].time, formatTemperature(sorted[k].temperature))]

\* ------------------------------------------------------------------------
\* Predicates on days
\* ------------------------------------------------------------------------
Pairs(transitions) ==
    [k \in 1..Len(transitions) |->
        <<transitions[k].time, transitions[k].temperature>>]

MidnightCount(transitions) ==
    Cardinality({k \in 1..Len(transitions) : transitions[k].time = MIDNIGHT})

StrictlyIncreasing(transitions) ==
    \A k \in 1..(Len(transitions) - 1) :
        compareTime(transitions[k].time, transitions[k + 1].time) < 0

NoDuplicateTimes(transitions) ==
    \A j, k \in 1..Len(transitions) :
        j # k => transitions[j].time # transitions[k].time

Normalized(transitions) ==
    /\ MidnightCount(transitions) = 1
    /\ StrictlyIncreasing(transitions)
    /\ NoDuplicateTimes(transitions)

OnGrid(temp) == temp >= Deg(4) /\ temp <= Deg(35) /\ temp % 50 = 0

AllOnGrid(transitions) ==
    \A k \in 1..Len(transitions) : OnGrid(transitions[k].temperature)

\* ------------------------------------------------------------------------
\* schedule-graph-view.ts: constants and the coordinate engine
\* ------------------------------------------------------------------------
Days == {"monday", "tuesday"}

NoDay == "none"

NoPoint == -1

DRAG_THRESHOLD == 5

PAD_TOP == 20

PAD_RIGHT == 20

PAD_BOTTOM == 40

PAD_LEFT == 50

TEMP_PADDING == 5

TEMP_ABSOLUTE_MIN == 4

TEMP_ABSOLUTE_MAX == 35

VIEWBOX_WIDTH == 800

VIEWBOX_HEIGHT == 350

MAX_TRANSITIONS == 6

Max2(a, b) == IF a >= b THEN a ELSE b

Min2(a, b) == IF a <= b THEN a ELSE b

\* Math.floor(a / b) and Math.ceil(a / b) for b > 0
FloorDiv(a, b) == a \div b

CeilDiv(a, b) == 0 - ((0 - a) \div b)

\* Math.round(a / b) for b > 0: the nearest integer, the larger one on a tie
RoundDiv(a, b) == (2 * a + b) \div (2 * b)

SetMin(S) == CHOOSE x \in S : \A y \in S : x <= y

SetMax(S) == CHOOSE x \in S : \A y \in S : y <= x

\* getTempRange: whole degrees
getTempRange(transitions) ==
    IF Len(transitions) = 0 THEN [min |-> 15, max |-> 25]
    ELSE LET temps == {transitions[k].temperature : k \in 1..Len(transitions)}
             minTemp == SetMin(temps)
             maxTemp == SetMax(temps)
             rangeMin == Max2(TEMP_ABSOLUTE_MIN, FloorDiv(minTemp - Deg(TEMP_PADDING), 100))
             rangeMax == Min2(TEMP_ABSOLUTE_MAX, CeilDiv(maxTemp + Deg(TEMP_PADDING), 100))
         IN IF rangeMax - rangeMin < 10
            THEN [min |-> Max2(TEMP_ABSOLUTE_MIN, FloorDiv(rangeMin + rangeMax - 10, 2)),
                  max |-> Min2(TEMP_ABSOLUTE_MAX, CeilDiv(rangeMin + rangeMax + 10, 2))]
            ELSE [min |-> rangeMin, max |-> rangeMax]

\* A number of hours, and a chart coordinate, is the fraction num / den
\* with den > 0.
Hours(n, d) == [num |-> n, den |-> d]

\* hourToX: left + (hour / 24) * chartWidth
hourToX(hour, width) ==
    LET chartWidth == width - PAD_LEFT - PAD_RIGHT
    IN Hours(PAD_LEFT * 24 * hour.den + hour.num * chartWidth, 24 * hour.den)

\* xToHour: clamp((x - left) / chartWidth * 24, 0, 24)
xToHour(x, width) ==
    LET chartWidth == width - PAD_LEFT - PAD_RIGHT
        relX == x.num - PAD_LEFT * x.den
    IN Hours(Max2(0, Min2(24 * chartWidth * x.den, relX * 24)), chartWidth * x.den)

\* Math.round(hours * 4) / 4
RoundToQuarter(hours) == Hours(RoundDiv(hours.num * 4, hours.den), 4)

\* the rounded value without the clamp to [4, 35]
yToTemp_unclamped(y, height, transitions) ==
    LET range == getTempRange(transitions)
        chartHeight == height - PAD_TOP - PAD_BOTTOM
        twice == 2 * range.min * chartHeight * y.den
                 + 2 * (chartHeight * y.den - (y.num - PAD_TOP * y.den))
                     * (range.max - range.min)
    IN RoundDiv(twice, chartHeight * y.den) * 50

\* as tempToY, had it kept the marker inside the chart area
tempToY_clamped(temp, height, transitions) ==
    LET range == getTempRange(transitions)
        chartHeight == height - PAD_TOP - PAD_BOTTOM
        tempRange == Deg(range.max - range.min)
        inside == Max2(0, Min2(tempRange, temp - Deg(range.min)))
    IN Hours(PAD_TOP * tempRange + chartHeight * (tempRange - inside), tempRange)

\* tempToY: top + chartHeight * (1 - (temp - min) / (max - min)); temp in
\* hundredths
tempToY(temp, height, transitions) ==
    LET range == getTempRange(transitions)
        chartHeight == height - PAD_TOP - PAD_BOTTOM
        tempRange == Deg(range.max - range.min)
    IN Hours(PAD_TOP * tempRange + chartHeight * (tempRange - (temp - Deg(range.min))),
             tempRange)

\* yToTemp: min + (1 - relY / chartHeight) * (max - min), rounded to the
\* nearest half degree and clamped to [4, 35]; the result in hundredths
yToTemp(y, height, transitions) ==
    LET range == getTempRange(transitions)
        chartHeight == height - PAD_TOP - PAD_BOTTOM
        \* relY = relYnum / y.den
        relYnum == y.num - PAD_TOP * y.den
        \* temp * 2 = (2 * min * chartHeight + 2 * (chartHeight - relY) * (max - min)) / chartHeight
        twice == 2 * range.min * chartHeight * y.den
                 + 2 * (chartHeight * y.den - relYnum) * (range.max - range.min)
        halves == RoundDiv(twice, chartHeight * y.den)
    IN Max2(Deg(TEMP_ABSOLUTE_MIN), Min2(Deg(TEMP_ABSOLUTE_MAX), halves * 50))

\* timeToHours: hours + minutes / 60
timeToHours(time) == Hours(time.h * 60 + time.m, 60)

\* hoursToTime: h = floor(hours), m = round((hours - h) * 60), each padded
\* to two digits
hoursToTime(hours) ==
    LET hh == FloorDiv(hours.num, hours.den)
        mm == RoundDiv((hours.num - hh * hours.den) * 60, hours.den)
    IN Time(hh, mm)

\* screenToSVGCoords: the chart is laid out at its viewBox size at the
\* viewport origin, so the screen transformation matrix is the identity
screenToSVGCoords(clientX, clientY) ==
    [x |-> Hours(clientX, 1), y |-> Hours(clientY, 1)]

\* ------------------------------------------------------------------------
\* Observation records
\* ------------------------------------------------------------------------
NoEvent == [day |-> NoDay, transitions |-> <<>>, save |-> "undefined", by |-> "none"]

\* per view, the last add request: the length it found and whether it
\* dispatched an event
NoAdd ==
    [v \in {"graph", "editor"} |-> [asked |-> FALSE, len |-> 0, emitted |-> FALSE]]

\* the gesture since the last press: day = the day selected at the press,
\* pressDay = that day's transitions at the press, target = the (time, temperature) the pressed
\* transition has now, moved = a move event was delivered, near = every
\* delivered move stayed closer than 5px to the press position, previews /
\* commits = the events the gesture's handlers dispatched, foreign = an add
\* changed the day meanwhile, ended = the release that ended it
NoGesture ==
    [pressPoint |-> NoPoint, day |-> NoDay, pressDay |-> <<>>, target |-> <<>>,
     near |-> TRUE,
     moved |-> FALSE, previews |-> 0, commits |-> 0, foreign |-> FALSE,
     ended |-> "no"]

NewGesture(index, dayAtPress) ==
    [pressPoint |-> index, day |-> selectedDay, pressDay |-> dayAtPress,
     target |-> <<dayAtPress[index + 1].time, dayAtPress[index + 1].temperature>>,
     near |-> TRUE, moved |-> FALSE, previews |-> 0, commits |-> 0,
     foreign |-> FALSE, ended |-> "no"]

\* nothing was saved yet; no conversion was asked for
NoSent == [d \in Days |-> <<>>]

\* _error = null
NoError == "none"

\* _schedule = null (a day of a schedule always has a transition)
NullSchedule == [d \in Days |-> <<>>]

\* hass.states has no entity of that id
NoSensor == [exists |-> FALSE, unavailable |-> FALSE, state |-> <<>>]

\* a sensor whose state is 'unavailable', 'unknown', 'none', 'null' or 'n/a'
Unavailable == [exists |-> TRUE, unavailable |-> TRUE, state |-> <<>>]

\* a sensor whose state is a day string
Sensor(dayString) == [exists |-> TRUE, unavailable |-> FALSE, state |-> dayString]

\* the rest state of the card's save fields, after construction
SaveAtRest ==
    /\ hasUnsavedChanges = FALSE
    /\ saving = FALSE
    /\ error = NoError
    /\ pendingSaveSchedule = NoSent
    /\ mqttSchedule = NoSent
    /\ published = 0
    /\ lastSave = "none"

NoPtr == [x |-> 0, y |-> 0, index |-> NoPoint]

NoHit == [time |-> MIDNIGHT, temperature |-> 0, id |-> NoId]

\* ------------------------------------------------------------------------
\* Codec harness: parse, serialize and parse again
\* ------------------------------------------------------------------------
InputTimes == {Time(0, 0), Time(6, 0), Time(6, 30), Time(22, 0)}

InputTempTexts ==
    {TempText(20, <<>>), TempText(20, <<5>>), TempText(4, <<0>>),
     TempText(18, <<2, 5>>)}

InputTokens ==
    {Token(t, tt) : t \in InputTimes, tt \in InputTempTexts} \cup {Malformed}

InputTemps == {Deg(4), Deg(20), 2050, 1825}

SeqsUpTo(S, n) == UNION {[1..k -> S] : k \in 0..n}

InputTexts == SeqsUpTo(InputTokens, MaxTokens)

InputDays ==
    SeqsUpTo({Tr(t, temp, NoId) : t \in InputTimes, temp \in InputTemps}, MaxDayLen)

\* the other components stay as constructed while the codec harness runs
ViewAtRest ==
    /\ schedule = [d \in Days |-> <<>>]
    /\ editingDay = NoDay
    /\ transitionIdCounter = 0
    /\ workingSchedule = <<>>
    /\ selectedDay = "monday"
    /\ disabled = FALSE
    /\ draggingPoint = NoPoint
    /\ dragStartX = 0
    /\ dragStartY = 0
    /\ isDragging = FALSE
    /\ mouseListening = FALSE
    /\ touchListening = FALSE
    /\ nEvents = 0
    /\ lastEvent = NoEvent
    /\ lastAdd = NoAdd
    /\ g = NoGesture
    /\ sent = NoSent
    /\ SaveAtRest
    /\ ptr = NoPtr
    /\ hit = NoHit

InitCodec ==
    /\ ViewAtRest
    /\ sensors = [d \in Days |-> NoSensor]
    /\ srcDay = <<>>
    /\ \/ stage = "text" /\ text \in InputTexts /\ day = <<>>
       \/ stage = "day" /\ day \in InputDays /\ text = <<>>

CodecParse ==
    /\ stage = "text"
    /\ day' = parseDaySchedule(text, 0)
    /\ stage' = "parsed"
    /\ UNCHANGED <<text, srcDay, cardVars, gestureVars, viewVars, obsVars,
                   deviceVars, engineVars, saveVars>>

CodecSerialize ==
    /\ stage \in {"day", "parsed"}
    /\ text' = serializeDaySchedule(day)
    /\ srcDay' = day
    /\ stage' = "serialized"
    /\ UNCHANGED <<day, cardVars, gestureVars, viewVars, obsVars,
                   deviceVars, engineVars, saveVars>>

CodecReparse ==
    /\ stage = "serialized"
    /\ day' = parseDaySchedule(text, 0)
    /\ stage' = "reparsed"
    /\ UNCHANGED <<text, srcDay, cardVars, gestureVars, viewVars, obsVars,
                   deviceVars, engineVars, saveVars>>

\* removeDuplicateTransitions applied to a list of transitions
CodecDedup ==
    /\ stage = "day"
    /\ srcDay' = day
    /\ day' = removeDuplicateTransitions(day, 0)
    /\ stage' = "deduped"
    /\ UNCHANGED <<text, cardVars, gestureVars, viewVars, obsVars,
                   deviceVars, engineVars, saveVars>>

\* ensureMidnightTransition applied to a day schedule
CodecEnsure ==
    /\ stage = "day"
    /\ srcDay' = day
    /\ day' = ensureMidnightTransition(day, 0)
    /\ stage' = "anchored"
    /\ UNCHANGED <<text, cardVars, gestureVars, viewVars, obsVars,
                   deviceVars, engineVars, saveVars>>

NextCodec ==
    CodecParse \/ CodecSerialize \/ CodecReparse \/ CodecDedup \/ CodecEnsure

SpecCodec == InitCodec /\ [][NextCodec]_vars

\* ---- the parser on day strings with more tokens than a day may hold ----
MaxLongTokens == 9

\* a line of tokens three hours apart; after 21:00 the times start again at
\* 00:00 with another temperature
LongLine ==
    [k \in 1..MaxLongTokens |->
        Token(Time((3 * (k - 1)) % 24, 0),
              TempText(IF k <= 8 THEN 20 ELSE 22, <<>>))]

RECURSIVE Pick(_, _, _)
Pick(line, S, k) ==
    IF k > Len(line) THEN <<>>
    ELSE (IF k \in S THEN <<line[k]>> ELSE <<>>) \o Pick(line, S, k + 1)

\* every day string made of tokens of the line, in the order of the line
LongTexts == {Pick(LongLine, S, 1) : S \in SUBSET (1..MaxLongTokens)}

InitLong ==
    /\ ViewAtRest
    /\ sensors = [d \in Days |-> NoSensor]
    /\ srcDay = <<>>
    /\ stage = "text" /\ text \in LongTexts /\ day = <<>>

NextLong == CodecParse

SpecLong == InitLong /\ [][NextLong]_vars

\* ------------------------------------------------------------------------
\* card.ts and the child components' property bindings
\* ------------------------------------------------------------------------
\* copyDaySchedule: ids are preserved, generated where missing
copyDaySchedule(source, ctr) == FillIds(source, ctr, 0)

\* getCurrentDaySchedule
CurrentDay == schedule[selectedDay]

\* A schedule-changed event is dispatched and handled synchronously by the
\* card's _handleScheduleChanged, which stores the event's day whatever the
\* save flag; an open day editor showing that day then takes a fresh working
\* copy in its updated() callback.
AddOutcome(view, found, dispatched) ==
    [lastAdd EXCEPT ![view] = [asked |-> TRUE, len |-> found, emitted |-> dispatched]]

Dispatch(dayKey, transitions, save, by) ==
    /\ nEvents < MaxEvents
    /\ nEvents' = nEvents + 1
    /\ lastEvent' = [day |-> dayKey, transitions |-> transitions, save |-> save, by |-> by]
    /\ schedule' = [schedule EXCEPT ![dayKey] = transitions]
    /\ hasUnsavedChanges' = TRUE
    /\ IF editingDay = dayKey
       THEN /\ workingSchedule' = copyDaySchedule(transitions, transitionIdCounter)
            /\ transitionIdCounter' = MaxId(workingSchedule', transitionIdCounter)
            /\ transitionIdCounter' <= MaxIds
       ELSE UNCHANGED <<workingSchedule, transitionIdCounter>>
    /\ UNCHANGED editingDay

NoDispatch == UNCHANGED <<nEvents, lastEvent, cardVars>>

\* dispatchTransitionUpdate(transitions, save)
dispatchTransitionUpdate(transitions, save, by) ==
    Dispatch(selectedDay, sortTransitions(transitions), save, by)

\* ------------------------------------------------------------------------
\* schedule-graph-view.ts: the drag gesture
\* ------------------------------------------------------------------------
\* squared distance of a pointer position from the recorded start
Dist2(p) ==
    (p.x - dragStartX) * (p.x - dragStartX) + (p.y - dragStartY) * (p.y - dragStartY)

\* a threshold of 2px instead of 5px
BelowThreshold_tight(p) == Dist2(p) < 4

\* Math.sqrt(dx * dx + dy * dy) < DRAG_THRESHOLD
BelowThreshold(p) == Dist2(p) < DRAG_THRESHOLD * DRAG_THRESHOLD

\* the time follows the pointer for every marker, the first included
DragTime_unpinned(index, hours) == hoursToTime(RoundToQuarter(hours))

\* isFirstPoint ? '00:00' : hoursToTime(Math.round(hours * 4) / 4)
DragTime(index, hours) ==
    IF index = 0 THEN MIDNIGHT ELSE hoursToTime(RoundToQuarter(hours))

\* transitions[draggingPoint] = { time: newTime, temperature: temp }
DraggedTransitions(transitions, index, p) ==
    LET coords == screenToSVGCoords(p.x, p.y)
        hours == xToHour(coords.x, VIEWBOX_WIDTH)
        temp == yToTemp(coords.y, VIEWBOX_HEIGHT, transitions)
    IN [transitions EXCEPT ![index + 1] = Tr(DragTime(index, hours), temp, NoId)]

\* the observed gesture is past the threshold and not yet released; a press
\* then belongs to the same gesture
Dragged == g.pressPoint # NoPoint /\ g.ended = "no" /\ g.previews > 0

\* the press of handlePointMouseDown / handlePointTouchStart
Press(index, p) ==
    /\ index \in 0..(Len(CurrentDay) - 1)
    /\ IF disabled
       THEN UNCHANGED <<draggingPoint, dragStartX, dragStartY, isDragging, g>>
       ELSE /\ draggingPoint' = index
            /\ dragStartX' = p.x
            /\ dragStartY' = p.y
            /\ isDragging' = FALSE
            /\ g' = IF Dragged THEN g ELSE NewGesture(index, CurrentDay)
    /\ NoDispatch
    /\ UNCHANGED <<codecVars, deviceVars, engineVars, saveVars, viewVars, lastAdd>>

handlePointMouseDown(index, p) ==
    /\ Press(index, p)
    /\ mouseListening' = (mouseListening \/ ~disabled)
    /\ UNCHANGED touchListening

handlePointTouchStart(index, p) ==
    /\ Press(index, p)
    /\ touchListening' = (touchListening \/ ~disabled)
    /\ UNCHANGED mouseListening

\* what a delivered move event adds to the record of the gesture
Moved(p) ==
    IF draggingPoint = NoPoint THEN g
    ELSE [g EXCEPT !.moved = TRUE, !.near = @ /\ Dist2(p) < 25]

\* the body shared by handleMouseMove and handleTouchMove
Move(p) ==
    /\ IF draggingPoint = NoPoint \/ disabled
       THEN /\ UNCHANGED isDragging
            /\ g' = Moved(p)
            /\ NoDispatch
       ELSE IF ~isDragging /\ BelowThreshold(p)
       THEN /\ UNCHANGED isDragging
            /\ g' = Moved(p)
            /\ NoDispatch
       ELSE /\ isDragging' = TRUE
            /\ draggingPoint < Len(CurrentDay)
            /\ dispatchTransitionUpdate(
                   DraggedTransitions(CurrentDay, draggingPoint, p), "false", "move")
            /\ g' = [Moved(p) EXCEPT
                        !.previews = @ + 1,
                        !.target = Pairs(DraggedTransitions(
                                       CurrentDay, draggingPoint, p))[draggingPoint + 1]]
    /\ UNCHANGED <<draggingPoint, dragStartX, dragStartY, mouseListening, touchListening>>
    /\ UNCHANGED <<codecVars, deviceVars, engineVars, saveVars, viewVars, lastAdd>>

handleMouseMove(p) ==
    /\ mouseListening
    /\ Move(p)

handleTouchMove(p) ==
    /\ touchListening
    /\ Move(p)

\* the body shared by handleMouseUp and handleTouchEnd
Release(how) ==
    /\ IF draggingPoint # NoPoint /\ isDragging
       THEN /\ dispatchTransitionUpdate(CurrentDay, "true", "release")
            /\ g' = [g EXCEPT !.ended = how, !.commits = @ + 1]
       ELSE /\ NoDispatch
            /\ g' = IF draggingPoint # NoPoint THEN [g EXCEPT !.ended = how] ELSE g
    /\ draggingPoint' = NoPoint
    /\ isDragging' = FALSE
    /\ UNCHANGED <<dragStartX, dragStartY>>
    /\ UNCHANGED <<codecVars, deviceVars, engineVars, saveVars, viewVars, lastAdd>>

handleMouseUp ==
    /\ mouseListening
    /\ Release("mouseup")
    /\ mouseListening' = FALSE
    /\ UNCHANGED touchListening

\* handleTouchEnd is the listener of touchend and of touchcancel
handleTouchEnd(how) ==
    /\ touchListening
    /\ Release(how)
    /\ touchListening' = FALSE
    /\ UNCHANGED mouseListening

\* ------------------------------------------------------------------------
\* schedule-graph-view.ts: add and remove
\* ------------------------------------------------------------------------
RECURSIVE MaxGapIndexFrom(_, _, _, _)
\* the loop of addTransition: the first index (0-based) of the largest gap
MaxGapIndexFrom(sorted, i, maxGap, maxGapIndex) ==
    IF i >= Len(sorted) - 1 THEN maxGapIndex
    ELSE LET gap == Minutes(sorted[i + 2].time) - Minutes(sorted[i + 1].time)
         IN IF gap > maxGap
            THEN MaxGapIndexFrom(sorted, i + 1, gap, i)
            ELSE MaxGapIndexFrom(sorted, i + 1, maxGap, maxGapIndex)

\* the transition addTransition pushes
NewGraphTransition(transitions) ==
    IF Len(transitions) > 1
    THEN LET sorted == sortTransitions(transitions)
             i == MaxGapIndexFrom(sorted, 0, 0, 0)
             hours1 == timeToHours(sorted[i + 1].time)
             hours2 == timeToHours(sorted[i + 2].time)
             midHours == Hours(hours1.num + hours2.num, 2 * 60)
             sum == sorted[i + 1].temperature + sorted[i + 2].temperature
         IN Tr(hoursToTime(midHours), Deg(RoundDiv(sum, 200)), NoId)
    ELSE Tr(Time(12, 0), Deg(20), NoId)

AtCap_off(transitions) == Len(transitions) > MAX_TRANSITIONS

\* transitions.length >= 6
AtCap(transitions) == Len(transitions) >= MAX_TRANSITIONS

addTransition ==
    /\ IF disabled
       THEN NoDispatch /\ UNCHANGED <<lastAdd, g>>
       ELSE IF AtCap(CurrentDay)
       THEN /\ NoDispatch
            /\ lastAdd' = AddOutcome("graph", Len(CurrentDay), FALSE)
            /\ UNCHANGED g
       ELSE /\ dispatchTransitionUpdate(
                   Append(CurrentDay, NewGraphTransition(CurrentDay)), "true", "add")
            /\ lastAdd' = AddOutcome("graph", Len(CurrentDay), TRUE)
            /\ g' = IF draggingPoint # NoPoint THEN [g EXCEPT !.foreign = TRUE] ELSE g
    /\ UNCHANGED <<codecVars, deviceVars, engineVars, saveVars, gestureVars, viewVars>>

RemoveAt(transitions, index) ==
    [k \in 1..(Len(transitions) - 1) |->
        IF k <= index THEN transitions[k] ELSE transitions[k + 1]]

\* handleSvgDblClick on the marker with data-point-index = index.  A dblclick
\* is delivered after the mouseup of its second click, when handleMouseUp has
\* reset draggingPoint.
removeTransitionAtIndex(index) ==
    /\ draggingPoint = NoPoint
    /\ index \in 0..(Len(CurrentDay) - 1)
    /\ IF disabled \/ index = 0 \/ Len(CurrentDay) <= 1
       THEN NoDispatch
       ELSE dispatchTransitionUpdate(RemoveAt(CurrentDay, index), "true", "remove")
    /\ UNCHANGED <<codecVars, deviceVars, engineVars, saveVars, gestureVars, viewVars, lastAdd, g>>

\* the host sets the disabled property
SetDisabled(b) ==
    /\ disabled # b
    /\ disabled' = b
    /\ UNCHANGED <<codecVars, deviceVars, engineVars, saveVars, cardVars, gestureVars, selectedDay, obsVars>>

\* ------------------------------------------------------------------------
\* day-schedule-editor.ts
\* ------------------------------------------------------------------------
\* _handleDaySelected, then the editor's updated() takes a working copy
EditorOpen(d) ==
    /\ editingDay # d
    /\ editingDay' = d
    /\ workingSchedule' = copyDaySchedule(schedule[d], transitionIdCounter)
    /\ transitionIdCounter' = MaxId(workingSchedule', transitionIdCounter)
    /\ transitionIdCounter' <= MaxIds
    /\ UNCHANGED <<schedule, hasUnsavedChanges, codecVars, deviceVars, engineVars,
                   saveVars, gestureVars, viewVars, obsVars>>

\* _handleEditorClosed: the editor element is removed
EditorClose ==
    /\ editingDay # NoDay
    /\ editingDay' = NoDay
    /\ workingSchedule' = <<>>
    /\ UNCHANGED <<schedule, transitionIdCounter, hasUnsavedChanges, codecVars,
                   deviceVars, engineVars, saveVars, gestureVars, viewVars, obsVars>>

\* the transition _addTransition appends: one hour after the last one, at
\* most hour 23, the same minutes and the same temperature
NewEditorTransition(transitions, ctr) ==
    IF Len(transitions) > 0
    THEN LET lastTransition == transitions[Len(transitions)]
         IN Tr(Time(Min2(23, lastTransition.time.h + 1), lastTransition.time.m),
               lastTransition.temperature, generateTransitionId(ctr, 1))
    ELSE Tr(Time(12, 0), Deg(20), generateTransitionId(ctr, 1))

\* the auto-fixes of _autoSave
AutoFixed(transitions, ctr) ==
    sortTransitions(ensureMidnightTransition(transitions, ctr))

\* _addTransition followed by its _autoSave
EditorAdd ==
    /\ editingDay # NoDay
    /\ IF AtCap(workingSchedule)
       THEN /\ NoDispatch
            /\ lastAdd' = AddOutcome("editor", Len(workingSchedule), FALSE)
       ELSE LET added == Append(workingSchedule,
                                NewEditorTransition(workingSchedule, transitionIdCounter))
                fixed == AutoFixed(added, transitionIdCounter + 1)
            IN /\ nEvents < MaxEvents
               /\ nEvents' = nEvents + 1
               /\ lastEvent' = [day |-> editingDay, transitions |-> fixed,
                                save |-> "undefined", by |-> "editor"]
               /\ schedule' = [schedule EXCEPT ![editingDay] = fixed]
               /\ hasUnsavedChanges' = TRUE
               /\ workingSchedule' = fixed
               /\ transitionIdCounter' = MaxId(fixed, transitionIdCounter)
               /\ transitionIdCounter' <= MaxIds
               /\ UNCHANGED editingDay
               /\ lastAdd' = AddOutcome("editor", Len(workingSchedule), TRUE)
    /\ UNCHANGED <<codecVars, deviceVars, engineVars, saveVars, gestureVars, viewVars, g>>

\* validateDaySchedule: true when the day has no violation (at least one
\* transition, the first at 00:00, at most six, strictly increasing and
\* distinct times, every temperature in [4, 35] on the half-degree grid)
validateDaySchedule(transitions) ==
    /\ Len(transitions) >= 1
    /\ transitions[1].time = MIDNIGHT
    /\ Len(transitions) <= MAX_TRANSITIONS
    /\ StrictlyIncreasing(transitions)
    /\ NoDuplicateTimes(transitions)
    /\ AllOnGrid(transitions)

\* an _autoSave that keeps the fixed working copy but dispatches only a day
\* without violations
AutoSave_blockInvalid(working, ctr) ==
    LET fixed == AutoFixed(working, ctr)
    IN /\ workingSchedule' = fixed
       /\ transitionIdCounter' = MaxId(fixed, ctr)
       /\ transitionIdCounter' <= MaxIds
       /\ UNCHANGED editingDay
       /\ IF validateDaySchedule(fixed)
          THEN /\ nEvents < MaxEvents
               /\ nEvents' = nEvents + 1
               /\ lastEvent' = [day |-> editingDay, transitions |-> fixed,
                                save |-> "undefined", by |-> "editor"]
               /\ schedule' = [schedule EXCEPT ![editingDay] = fixed]
               /\ hasUnsavedChanges' = TRUE
          ELSE UNCHANGED <<nEvents, lastEvent, schedule, hasUnsavedChanges>>

\* _autoSave of a working copy: the auto-fixes, then a schedule-changed event
\* without a save flag, which the card stores
AutoSave(working, ctr) ==
    LET fixed == AutoFixed(working, ctr)
    IN /\ nEvents < MaxEvents
       /\ nEvents' = nEvents + 1
       /\ lastEvent' = [day |-> editingDay, transitions |-> fixed,
                        save |-> "undefined", by |-> "editor"]
       /\ schedule' = [schedule EXCEPT ![editingDay] = fixed]
       /\ hasUnsavedChanges' = TRUE
       /\ workingSchedule' = fixed
       /\ transitionIdCounter' = MaxId(fixed, ctr)
       /\ transitionIdCounter' <= MaxIds
       /\ UNCHANGED editingDay

\* transitions.filter(t => t.id !== id)
WithoutId(transitions, id) == SelectSeq(transitions, LAMBDA t : t.id # id)

\* the delete button of the row of index `index`, rendered while the working
\* copy has more than one transition; _deleteTransitionById
EditorDelete(index) ==
    /\ editingDay # NoDay
    /\ Len(workingSchedule) > 1
    /\ index \in 0..(Len(workingSchedule) - 1)
    /\ LET id == workingSchedule[index + 1].id
       IN IF id = NoId
          THEN NoDispatch
          ELSE AutoSave(WithoutId(workingSchedule, id), transitionIdCounter)
    /\ UNCHANGED <<codecVars, deviceVars, engineVars, saveVars, gestureVars, viewVars, lastAdd, g>>

\* transitions.map(t => t.id === id ? { ...transition, id } : t)
WithUpdated(transitions, id, transition) ==
    [k \in 1..Len(transitions) |->
        IF transitions[k].id = id
        THEN Tr(transition.time, transition.temperature, id)
        ELSE transitions[k]]

\* _updateTransitionById
EditorUpdate(index, transition) ==
    /\ editingDay # NoDay
    /\ index \in 0..(Len(workingSchedule) - 1)
    /\ LET id == workingSchedule[index + 1].id
       IN IF id = NoId
          THEN NoDispatch
          ELSE AutoSave(WithUpdated(workingSchedule, id, transition), transitionIdCounter)
    /\ UNCHANGED <<codecVars, deviceVars, engineVars, saveVars, gestureVars, viewVars, lastAdd, g>>

\* transition-editor _isValidTime: /^([0-1][0-9]|2[0-3]):[0-5][0-9]$/
isValidTime(time) == time.h \in 0..23 /\ time.m \in 0..59

\* transition-editor _handleTimeBlur: the time input of every row but the
\* first is enabled; a changed, valid value is sent to the day editor
EditorUpdateTime(index, newTime) ==
    /\ index > 0
    /\ index < Len(workingSchedule)
    /\ newTime # workingSchedule[index + 1].time
    /\ isValidTime(newTime)
    /\ EditorUpdate(index, [workingSchedule[index + 1] EXCEPT !.time = newTime])

\* transition-editor _clampTemperature
clampTemperature(temp) ==
    RoundDiv(Max2(Deg(4), Min2(Deg(35), temp)) * 2, 100) * 50

\* transition-editor _handleTemperatureChange
EditorUpdateTemperature(index, newTemp) ==
    /\ index < Len(workingSchedule)
    /\ EditorUpdate(index, [workingSchedule[index + 1] EXCEPT
                                !.temperature = clampTemperature(newTemp)])

\* ------------------------------------------------------------------------
\* card.ts: save and view mode
\* ------------------------------------------------------------------------
\* serializeWeeklySchedule
serializeWeeklySchedule(weekly) == [d \in Days |-> serializeDaySchedule(weekly[d])]

\* _saveSchedule run to its end without a failure, from the Save button,
\* which is enabled once a schedule-changed event has set
\* _hasUnsavedChanges; saveSchedule publishes each day of
\* serializeWeeklySchedule(_schedule)
saveSchedule ==
    /\ hasUnsavedChanges /\ ~saving
    /\ sent' = serializeWeeklySchedule(schedule)
    /\ mqttSchedule' = serializeWeeklySchedule(schedule)
    /\ pendingSaveSchedule' = serializeWeeklySchedule(schedule)
    /\ published' = Cardinality(Days)
    /\ hasUnsavedChanges' = FALSE
    /\ error' = NoError
    /\ lastSave' = "started"
    /\ UNCHANGED <<saving, sensors, schedule, editingDay, transitionIdCounter,
                   workingSchedule>>
    /\ UNCHANGED <<codecVars, gestureVars, viewVars, obsVars, engineVars>>

\* _toggleViewMode to the week view: the graph view element is removed and
\* its disconnectedCallback removes the document listeners.  The next toggle
\* renders a new element, with the state of its field initialisers.
disconnectedCallback ==
    /\ mouseListening' = FALSE
    /\ touchListening' = FALSE
    /\ draggingPoint' = NoPoint
    /\ dragStartX' = 0
    /\ dragStartY' = 0
    /\ isDragging' = FALSE
    /\ g' = IF draggingPoint # NoPoint THEN [g EXCEPT !.ended = "disconnect"] ELSE g
    /\ UNCHANGED <<nEvents, lastEvent, lastAdd>>
    /\ UNCHANGED <<codecVars, cardVars, viewVars, deviceVars, engineVars, saveVars>>

\* ------------------------------------------------------------------------
\* The card with the graph view and the day editor
\* ------------------------------------------------------------------------
\* pointer positions in client pixels
Pt(px, py) == [x |-> px, y |-> py]

PressPoints == {Pt(233, 165), Pt(415, 100)}

MovePoints == {Pt(236, 165), Pt(415, 100), Pt(790, 10)}

\* the day strings the sensors hold when the card loads
Loaded3 ==
    << Token(Time(0, 0), TempText(20, <<>>)), Token(Time(6, 0), TempText(22, <<>>)),
       Token(Time(12, 0), TempText(18, <<5>>)) >>

Loaded5 ==
    << Token(Time(0, 0), TempText(17, <<>>)), Token(Time(6, 0), TempText(21, <<>>)),
       Token(Time(8, 0), TempText(18, <<>>)), Token(Time(17, 30), TempText(21, <<5>>)),
       Token(Time(22, 0), TempText(17, <<>>)) >>

Loaded6 == Loaded5 \o << Token(Time(12, 0), TempText(19, <<>>)) >>

\* _loadSchedule: parseWeeklySchedule of the sensors' strings, monday's being
\* one of mondays and tuesday's without a valid token
Loaded(mondays) ==
    /\ stage = "idle" /\ text = <<>> /\ day = <<>> /\ srcDay = <<>>
    /\ \E mon \in mondays :
          LET monday == parseDaySchedule(mon, 0)
              tuesday == parseDaySchedule(<<Malformed>>, MaxId(monday, 0))
          IN /\ sensors = [d \in Days |->
                              IF d = "monday" THEN Sensor(mon) ELSE Sensor(<<Malformed>>)]
             /\ schedule = [d \in Days |-> IF d = "monday" THEN monday ELSE tuesday]
             /\ transitionIdCounter = MaxId(tuesday, 0)
    /\ SaveAtRest
    /\ editingDay = NoDay
    /\ workingSchedule = <<>>
    /\ selectedDay = "monday"
    /\ disabled = FALSE
    /\ draggingPoint = NoPoint
    /\ dragStartX = 0
    /\ dragStartY = 0
    /\ isDragging = FALSE
    /\ mouseListening = FALSE
    /\ touchListening = FALSE
    /\ nEvents = 0
    /\ lastEvent = NoEvent
    /\ lastAdd = NoAdd
    /\ g = NoGesture
    /\ sent = NoSent

PointIndexes == 0..(MAX_TRANSITIONS - 1)

\* ---- the graph view: gestures, add, remove ----
Init == Loaded({Loaded3}) /\ ptr = NoPtr /\ hit = NoHit

Next ==
    \/ \E i \in PointIndexes, p \in PressPoints : handlePointMouseDown(i, p)
    \/ \E i \in PointIndexes, p \in PressPoints : handlePointTouchStart(i, p)
    \/ \E p \in MovePoints : handleMouseMove(p)
    \/ \E p \in MovePoints : handleTouchMove(p)
    \/ handleMouseUp
    \/ \E how \in {"touchend", "touchcancel"} : handleTouchEnd(how)
    \/ addTransition
    \/ \E i \in PointIndexes : removeTransitionAtIndex(i)
    \/ \E b \in BOOLEAN : SetDisabled(b)

Spec == Init /\ [][Next]_vars

\* ---- the threshold and the day buttons during a gesture ----
\* a day button of the graph view: selectDay
selectDay(d) ==
    /\ selectedDay' = IF disabled THEN selectedDay ELSE d
    /\ UNCHANGED <<codecVars, cardVars, gestureVars, disabled, obsVars, deviceVars,
                   engineVars, saveVars>>

\* pointer positions 3px, 5px (straight and diagonal) and 6px from the press
\* at (233, 165), and one far from it
ThresholdPoints == {Pt(236, 165), Pt(238, 165), Pt(236, 169), Pt(239, 165), Pt(415, 100)}

NextView ==
    \/ \E i \in {0, 1} : handlePointMouseDown(i, Pt(233, 165))
    \/ \E i \in {0, 1} : handlePointTouchStart(i, Pt(233, 165))
    \/ \E p \in ThresholdPoints : handleMouseMove(p)
    \/ \E p \in ThresholdPoints : handleTouchMove(p)
    \/ handleMouseUp
    \/ \E how \in {"touchend", "touchcancel"} : handleTouchEnd(how)
    \/ \E d \in Days : selectDay(d)

SpecView == Init /\ [][NextView]_vars

\* ---- one add in the graph view on days with times at any minute ----
\* the transitions after 00:00 that the loaded days are made of; for every
\* day made of them the gaps and the midpoint computed in double precision
\* round as the exact values do
AddTokens ==
    << Token(Time(0, 1), TempText(20, <<>>)), Token(Time(1, 59), TempText(22, <<>>)),
       Token(Time(8, 0), TempText(18, <<5>>)), Token(Time(12, 0), TempText(21, <<>>)),
       Token(Time(18, 59), TempText(19, <<>>)), Token(Time(22, 59), TempText(17, <<>>)) >>

\* Monday holds 00:00 and up to four of them: a day below the cap
InitAdd ==
    /\ Loaded({ <<Token(Time(0, 0), TempText(20, <<>>))>>
                    \o SelectSeq(AddTokens, LAMBDA tok : tok.time \in S) :
                S \in {T \in SUBSET {AddTokens[k].time : k \in 1..Len(AddTokens)} :
                          Cardinality(T) <= MAX_TRANSITIONS - 2} })
    /\ ptr = NoPtr
    /\ hit = NoHit

\* the add button is clicked once on the loaded day
addOnce == nEvents = 0 /\ addTransition

SpecAdd == InitAdd /\ [][addOnce]_vars

\* ---- add in the graph view and in the day editor ----

InitEdit == Loaded({Loaded3, Loaded5, Loaded6}) /\ ptr = NoPtr /\ hit = NoHit

NextEdit ==
    \/ addTransition
    \/ \E i \in PointIndexes : removeTransitionAtIndex(i)
    \/ \E b \in BOOLEAN : SetDisabled(b)
    \/ \E d \in Days : EditorOpen(d)
    \/ EditorClose
    \/ EditorAdd

SpecEdit == InitEdit /\ [][NextEdit]_vars

\* ---- add, delete and update in the day editor, delete in the graph view ----
\* what the user types into a time input and sets on a temperature slider
EditTimes == {Time(0, 0), Time(6, 0), Time(12, 0), Time(23, 0)}

EditTemps == {Deg(17), 3620}

InitEditor == Loaded({Loaded3, Loaded5}) /\ ptr = NoPtr /\ hit = NoHit

NextEditor ==
    \/ EditorOpen("monday")
    \/ EditorAdd
    \/ \E i \in PointIndexes : EditorDelete(i)
    \/ \E i \in PointIndexes, t \in EditTimes : EditorUpdateTime(i, t)
    \/ \E i \in PointIndexes, temp \in EditTemps : EditorUpdateTemperature(i, temp)
    \/ \E i \in PointIndexes : removeTransitionAtIndex(i)

SpecEditor == InitEditor /\ [][NextEditor]_vars

\* ---- every operation that emits a schedule, on days up to the cap ----
InitOps == Loaded({Loaded3, Loaded5, Loaded6}) /\ ptr = NoPtr /\ hit = NoHit

NextOps ==
    \/ \E i \in {0, 1} : handlePointMouseDown(i, Pt(233, 165))
    \/ \E p \in {Pt(415, 100), Pt(790, 10)} : handleMouseMove(p)
    \/ handleMouseUp
    \/ addTransition
    \/ \E i \in PointIndexes : removeTransitionAtIndex(i)
    \/ EditorOpen("monday")
    \/ EditorAdd
    \/ \E i \in PointIndexes : EditorDelete(i)
    \/ \E i \in PointIndexes : EditorUpdateTime(i, Time(0, 0))

SpecOps == InitOps /\ [][NextOps]_vars

\* ---- the card loading the weekly schedule from the day sensors ----
\* parseWeeklySchedule: each day parsed from its own string, '' when the
\* property is missing
parseWeeklySchedule(mqtt, ctr) ==
    LET monday == parseDaySchedule(mqtt["monday"], ctr)
        tuesday == parseDaySchedule(mqtt["tuesday"], MaxId(monday, ctr))
    IN [d \in Days |-> IF d = "monday" THEN monday ELSE tuesday]

createEmptyWeeklySchedule(ctr) ==
    [d \in Days |->
        createEmptyDaySchedule(IF d = "monday" THEN ctr ELSE ctr + 1)]

\* state == null, or in INVALID_SENSOR_STATES, which holds ''
isInvalidSensorState(sensor) == sensor.unavailable \/ sensor.state = <<>>

\* null (NullSchedule) unless every day sensor exists with a valid state
getScheduleFromSensor(states, ctr) ==
    IF \E d \in Days : ~states[d].exists \/ isInvalidSensorState(states[d])
    THEN NullSchedule
    ELSE parseWeeklySchedule([d \in Days |-> states[d].state], ctr)

\* _loadSchedule of a card whose climate entity exists
loadSchedule ==
    /\ stage = "sensors"
    /\ stage' = "loaded"
    /\ IF \E d \in Days : ~sensors[d].exists
       THEN /\ error' = "Schedule sensors not found"
            /\ schedule' = NullSchedule
            /\ UNCHANGED hasUnsavedChanges
       ELSE LET fromSensors == getScheduleFromSensor(sensors, transitionIdCounter)
            IN IF fromSensors # NullSchedule
               THEN /\ schedule' = fromSensors
                    /\ hasUnsavedChanges' = FALSE
                    /\ error' = NoError
               ELSE /\ schedule' = createEmptyWeeklySchedule(transitionIdCounter)
                    /\ hasUnsavedChanges' = TRUE
                    /\ error' = "No valid schedule found on sensors. Using default schedule."
    /\ transitionIdCounter' = MaxId(schedule'["tuesday"],
                                    MaxId(schedule'["monday"], transitionIdCounter))
    /\ UNCHANGED <<editingDay, workingSchedule, saving, pendingSaveSchedule,
                   mqttSchedule, published, lastSave>>
    /\ UNCHANGED <<text, day, srcDay, gestureVars, viewVars, obsVars, deviceVars,
                   engineVars>>

\* what a day sensor can hold: no entity, an unavailable state, the empty
\* string, a string without a valid token, one token, a whole day
SensorStates ==
    {NoSensor, Unavailable, Sensor(Loaded3)}
        \cup {Sensor(dayString) : dayString \in SeqsUpTo(InputTokens, 1)}

InitWeek ==
    /\ ViewAtRest
    /\ stage = "sensors" /\ text = <<>> /\ day = <<>> /\ srcDay = <<>>
    /\ sensors \in [Days -> SensorStates]

NextWeek == loadSchedule

SpecWeek == InitWeek /\ [][NextWeek]_vars

\* ---- the coordinate engine under a move of a pressed marker ----
LoadedCold == << Token(Time(0, 0), TempText(4, <<>>)), Token(Time(6, 0), TempText(5, <<>>)) >>

LoadedHot == << Token(Time(0, 0), TempText(35, <<>>)), Token(Time(8, 0), TempText(30, <<>>)) >>

LoadedFlat == << Token(Time(0, 0), TempText(20, <<>>)), Token(Time(9, 15), TempText(20, <<5>>)) >>

\* client positions: every column at one height, every row in one column,
\* from outside the chart on one side to outside it on the other
PointerXs == (0 - 30)..(VIEWBOX_WIDTH + 30)

PointerYs == (0 - 40)..(VIEWBOX_HEIGHT + 40)

PointerPositions ==
    {Pt(px, 165) : px \in PointerXs} \cup {Pt(415, py) : py \in PointerYs}

InitEngine ==
    /\ Loaded({Loaded3, Loaded5, LoadedCold, LoadedHot, LoadedFlat})
    /\ \E p \in PointerPositions, i \in 0..(Len(CurrentDay) - 1) :
           ptr = [x |-> p.x, y |-> p.y, index |-> i]
    /\ hit = NoHit

\* the conversion in handleMouseMove / handleTouchMove of a pointer position
\* into the transition written at the dragged index
EngineMove ==
    /\ hit = NoHit
    /\ hit' = DraggedTransitions(CurrentDay, ptr.index, Pt(ptr.x, ptr.y))[ptr.index + 1]
    /\ UNCHANGED <<ptr, codecVars, cardVars, gestureVars, viewVars, obsVars, deviceVars,
                   saveVars>>

NextEngine == EngineMove

SpecEngine == InitEngine /\ [][NextEngine]_vars

\* ---- a time and a temperature drawn on the chart and read back ----
\* hit is the transition to draw: every minute of the day and 24:00 at 20
\* degrees, and every half degree of [4, 35] at 00:00
InitRound ==
    /\ Loaded({Loaded3, Loaded5, LoadedCold, LoadedHot, LoadedFlat})
    /\ ptr = NoPtr
    /\ hit \in {Tr(Time(h, m), Deg(20), NoId) : h \in 0..23, m \in 0..59}
               \cup {Tr(Time(24, 0), Deg(20), NoId)}
               \cup {Tr(MIDNIGHT, Deg(TEMP_ABSOLUTE_MIN) + 50 * k, NoId) :
                        k \in 0..(2 * (TEMP_ABSOLUTE_MAX - TEMP_ABSOLUTE_MIN))}

\* the marker position of renderPoints (hourToX, tempToY) and the
\* conversion of that position by the move handlers (xToHour, yToTemp)
RoundTrip ==
    /\ stage = "idle"
    /\ stage' = "back"
    /\ ptr' = [x |-> hourToX(timeToHours(hit.time), VIEWBOX_WIDTH),
               y |-> tempToY(hit.temperature, VIEWBOX_HEIGHT, CurrentDay),
               index |-> NoPoint]
    /\ day' = <<Tr(hoursToTime(xToHour(ptr'.x, VIEWBOX_WIDTH)),
                   yToTemp(ptr'.y, VIEWBOX_HEIGHT, CurrentDay), NoId)>>
    /\ UNCHANGED <<text, srcDay, hit, cardVars, gestureVars, viewVars, obsVars,
                   deviceVars, saveVars>>

SpecRound == InitRound /\ [][RoundTrip]_vars

\* ---- drag in the graph view, then Save ----
NextSave ==
    \/ \E i \in PointIndexes, p \in PressPoints : handlePointMouseDown(i, p)
    \/ \E p \in MovePoints : handleMouseMove(p)
    \/ handleMouseUp
    \/ disconnectedCallback
    \/ saveSchedule

SpecSave == Init /\ [][NextSave]_vars

\* ---- a save step by step: one mqtt.publish per day, each awaited ----
\* DAYS_OF_WEEK, the order in which saveSchedule publishes
DAYS_OF_WEEK == <<"monday", "tuesday">>

\* the message of the Error thrown by saveSchedule
SaveFailed == "Failed to save schedule"

\* a _saveSchedule that does not test _saving
saveScheduleBegin_noGuard ==
    /\ IF schedule = NullSchedule
       THEN /\ lastSave' = "ignored"
            /\ UNCHANGED <<saving, error, pendingSaveSchedule, mqttSchedule,
                           published, sent>>
       ELSE /\ saving' = TRUE
            /\ error' = NoError
            /\ pendingSaveSchedule' = serializeWeeklySchedule(schedule)
            /\ mqttSchedule' = serializeWeeklySchedule(schedule)
            /\ published' = 1
            /\ sent' = [sent EXCEPT ![DAYS_OF_WEEK[1]] = mqttSchedule'[DAYS_OF_WEEK[1]]]
            /\ lastSave' = "started"
    /\ UNCHANGED <<sensors, cardVars, codecVars, gestureVars, viewVars, obsVars,
                   engineVars>>

\* a call of _saveSchedule up to its first await: the guard, _saving, _error,
\* _pendingSaveSchedule, then saveSchedule serializes the week and calls
\* mqtt.publish for the first day
saveScheduleBegin ==
    /\ IF schedule = NullSchedule \/ saving
       THEN /\ lastSave' = "ignored"
            /\ UNCHANGED <<saving, error, pendingSaveSchedule, mqttSchedule,
                           published, sent>>
       ELSE /\ saving' = TRUE
            /\ error' = NoError
            /\ pendingSaveSchedule' = serializeWeeklySchedule(schedule)
            /\ mqttSchedule' = serializeWeeklySchedule(schedule)
            /\ published' = 1
            /\ sent' = [sent EXCEPT ![DAYS_OF_WEEK[1]] = mqttSchedule'[DAYS_OF_WEEK[1]]]
            /\ lastSave' = "started"
    /\ UNCHANGED <<sensors, cardVars, codecVars, gestureVars, viewVars, obsVars,
                   engineVars>>

\* the awaited callService resolves: saveSchedule publishes the next day of
\* the week it serialized, or returns and _saveSchedule finishes
callServiceResolved ==
    /\ saving
    /\ IF published < Len(DAYS_OF_WEEK)
       THEN /\ published' = published + 1
            /\ sent' = [sent EXCEPT ![DAYS_OF_WEEK[published']] =
                                        mqttSchedule[DAYS_OF_WEEK[published']]]
            /\ lastSave' = "next"
            /\ UNCHANGED <<saving, error, pendingSaveSchedule, hasUnsavedChanges>>
       ELSE /\ hasUnsavedChanges' = FALSE
            /\ error' = NoError
            /\ saving' = FALSE
            /\ lastSave' = "saved"
            /\ UNCHANGED <<published, sent, pendingSaveSchedule>>
    /\ UNCHANGED <<mqttSchedule, sensors, schedule, editingDay, transitionIdCounter,
                   workingSchedule>>
    /\ UNCHANGED <<codecVars, gestureVars, viewVars, obsVars, engineVars>>

\* a rejection that leaves _pendingSaveSchedule as it is
callServiceRejected_keepsPending ==
    /\ saving
    /\ error' = SaveFailed
    /\ saving' = FALSE
    /\ lastSave' = "failed"
    /\ UNCHANGED <<pendingSaveSchedule, mqttSchedule, published, sent, sensors, cardVars>>
    /\ UNCHANGED <<codecVars, gestureVars, viewVars, obsVars, engineVars>>

\* the awaited callService rejects: saveSchedule throws, the catch block of
\* _saveSchedule stores the message and clears _pendingSaveSchedule, the
\* finally block resets _saving
callServiceRejected ==
    /\ saving
    /\ error' = SaveFailed
    /\ pendingSaveSchedule' = NoSent
    /\ saving' = FALSE
    /\ lastSave' = "failed"
    /\ UNCHANGED <<mqttSchedule, published, sent, sensors, cardVars>>
    /\ UNCHANGED <<codecVars, gestureVars, viewVars, obsVars, engineVars>>

NextSaving ==
    \/ saveScheduleBegin
    \/ callServiceResolved
    \/ callServiceRejected
    \/ addTransition
    \/ \E i \in PointIndexes : removeTransitionAtIndex(i)

SpecSaving == Init /\ [][NextSaving]_vars

\* every callService promise settles, and the continuation of the await then
\* runs
SpecSavingFair ==
    SpecSaving /\ WF_vars(callServiceResolved \/ callServiceRejected)

\* ---- sensor updates around a save ----
\* an updated() without the pending-save branch
updated_ignoresPending(newStates) ==
    /\ sensors' = newStates
    /\ IF saving
       THEN UNCHANGED <<schedule, hasUnsavedChanges, error, pendingSaveSchedule,
                        transitionIdCounter>>
       ELSE IF \E d \in Days :
                  /\ sensors[d].exists /\ newStates[d].exists
                  /\ <<sensors[d].unavailable, sensors[d].state>>
                        # <<newStates[d].unavailable, newStates[d].state>>
       THEN LET fromSensors == getScheduleFromSensor(newStates, transitionIdCounter)
            IN /\ IF fromSensors # NullSchedule
                  THEN /\ schedule' = fromSensors
                       /\ hasUnsavedChanges' = FALSE
                       /\ error' = NoError
                  ELSE /\ schedule' = createEmptyWeeklySchedule(transitionIdCounter)
                       /\ hasUnsavedChanges' = TRUE
                       /\ error' = "No valid schedule found on sensors. Using default schedule."
               /\ transitionIdCounter' =
                      MaxId(schedule'["tuesday"],
                            MaxId(schedule'["monday"], transitionIdCounter))
               /\ transitionIdCounter' <= MaxIds
               /\ UNCHANGED pendingSaveSchedule
       ELSE UNCHANGED <<schedule, hasUnsavedChanges, error, pendingSaveSchedule,
                        transitionIdCounter>>
    /\ UNCHANGED <<editingDay, workingSchedule, saving, mqttSchedule, published,
                   lastSave, sent>>
    /\ UNCHANGED <<codecVars, gestureVars, viewVars, obsVars, engineVars>>

\* updated() after hass was replaced by one whose day sensors are newStates,
\* for the entity the card already shows: nothing during a save; with a
\* pending save only the comparison with the saved strings; otherwise
\* _loadSchedule when a day sensor's state changed (all day sensors exist)
updated(newStates) ==
    /\ sensors' = newStates
    /\ IF saving
       THEN UNCHANGED <<schedule, hasUnsavedChanges, error, pendingSaveSchedule,
                        transitionIdCounter>>
       ELSE IF pendingSaveSchedule # NoSent
       THEN /\ pendingSaveSchedule' =
                   IF \A d \in Days :
                         /\ newStates[d].exists /\ ~newStates[d].unavailable
                         /\ newStates[d].state = pendingSaveSchedule[d]
                   THEN NoSent
                   ELSE pendingSaveSchedule
            /\ UNCHANGED <<schedule, hasUnsavedChanges, error, transitionIdCounter>>
       ELSE IF \E d \in Days :
                  /\ sensors[d].exists /\ newStates[d].exists
                  /\ <<sensors[d].unavailable, sensors[d].state>>
                        # <<newStates[d].unavailable, newStates[d].state>>
       THEN LET fromSensors == getScheduleFromSensor(newStates, transitionIdCounter)
            IN /\ IF fromSensors # NullSchedule
                  THEN /\ schedule' = fromSensors
                       /\ hasUnsavedChanges' = FALSE
                       /\ error' = NoError
                  ELSE /\ schedule' = createEmptyWeeklySchedule(transitionIdCounter)
                       /\ hasUnsavedChanges' = TRUE
                       /\ error' = "No valid schedule found on sensors. Using default schedule."
               /\ transitionIdCounter' =
                      MaxId(schedule'["tuesday"],
                            MaxId(schedule'["monday"], transitionIdCounter))
               /\ transitionIdCounter' <= MaxIds
               /\ UNCHANGED pendingSaveSchedule
       ELSE UNCHANGED <<schedule, hasUnsavedChanges, error, pendingSaveSchedule,
                        transitionIdCounter>>
    /\ UNCHANGED <<editingDay, workingSchedule, saving, mqttSchedule, published,
                   lastSave, sent>>
    /\ UNCHANGED <<codecVars, gestureVars, viewVars, obsVars, engineVars>>

\* a day string written to a day sensor by something other than the card
External ==
    << Token(Time(0, 0), TempText(17, <<>>)), Token(Time(7, 0), TempText(21, <<>>)) >>

\* the next hass object: no day sensor changed, or one day sensor reports
\* the string last published for its day, or an external string
HassUpdates ==
    {sensors} \cup
    UNION {{[sensors EXCEPT ![d] = Sensor(dayString)] :
               dayString \in {External} \cup ({sent[d]} \ {<<>>})} : d \in Days}

NextSensors ==
    \/ addTransition
    \/ saveScheduleBegin
    \/ callServiceResolved
    \/ callServiceRejected
    \/ \E newStates \in HassUpdates : updated(newStates)

SpecSensors == Init /\ [][NextSensors]_vars

C2_RoundTrip ==
    (stage = "reparsed" /\ Normalized(srcDay) /\ AllOnGrid(srcDay))
        => Pairs(day) = Pairs(srcDay)

\* a round trip of a normalized three-transition day with a half-degree value
C2_Witness ==
    /\ stage = "reparsed"
    /\ Normalized(srcDay) /\ AllOnGrid(srcDay)
    /\ Len(srcDay) = 3
    /\ \E k \in 1..3 : srcDay[k].temperature = 2050

\* ------------------------------------------------------------------------
\* C3: if every move event of a gesture stays closer than 5px to the press
\* position, the gesture emits no schedule-changed event from press through
\* release, the schedule is unchanged, and the gesture ends in Idle.
\* ------------------------------------------------------------------------
C3_NoEventBelowThreshold ==
    /\ []((g.pressPoint # NoPoint /\ g.near)
            => /\ g.previews = 0 /\ g.commits = 0
               /\ (g.ended # "no" => draggingPoint = NoPoint /\ ~isDragging))
    /\ [][(/\ g'.pressPoint # NoPoint /\ g'.near
           /\ (nEvents' # nEvents \/ schedule' # schedule))
            => lastEvent'.by \notin {"move", "release"}]_vars

\* a released gesture whose delivered moves all stayed within the threshold
C3_Witness ==
    /\ g.pressPoint # NoPoint
    /\ g.moved /\ g.near
    /\ g.ended = "mouseup"
    /\ ~disabled

\* ------------------------------------------------------------------------
\* C4: while the 00:00 transition is dragged, every preview and the commit
\* keep its time at 00:00 for every horizontal pointer position; only its
\* temperature changes.
\* ------------------------------------------------------------------------
C4_AnchorTimePinned ==
    [][(nEvents' > nEvents /\ lastEvent'.by \in {"move", "release"} /\ draggingPoint = 0)
        => /\ Len(lastEvent'.transitions) = Len(CurrentDay)
           /\ lastEvent'.transitions[1].time = MIDNIGHT
           /\ \A k \in 2..Len(CurrentDay) :
                  Pairs(lastEvent'.transitions)[k] = Pairs(CurrentDay)[k]]_vars

\* the anchor is being dragged with the pointer far right of its marker and
\* the preview carries a new temperature for it
C4_Witness ==
    /\ draggingPoint = 0 /\ isDragging
    /\ g.pressPoint = 0
    /\ lastEvent.by = "move"
    /\ dragStartX = 233
    /\ lastEvent.transitions[1].time = MIDNIGHT
    /\ g.pressDay[1].temperature = Deg(20)
    /\ lastEvent.transitions[1].temperature = 2750

\* ------------------------------------------------------------------------
\* C5: an add on a day that already holds 6 transitions is a no-op in both
\* the graph view and the day editor: the day's schedule is unchanged and no
\* schedule-changed event is emitted.
\* ------------------------------------------------------------------------
C5_AddAtCapIsNoOp ==
    [][(\/ (Len(CurrentDay) = 6 /\ addTransition)
        \/ (editingDay # NoDay /\ Len(schedule[editingDay]) = 6 /\ EditorAdd))
        => /\ schedule' = schedule
           /\ workingSchedule' = workingSchedule
           /\ nEvents' = nEvents
           /\ lastEvent' = lastEvent]_vars

\* both views were asked to add to a day of 6 transitions and refused
C5_Witness ==
    /\ lastAdd["graph"] = [asked |-> TRUE, len |-> 6, emitted |-> FALSE]
    /\ lastAdd["editor"] = [asked |-> TRUE, len |-> 6, emitted |-> FALSE]
    /\ Len(schedule["monday"]) = 6

\* ------------------------------------------------------------------------
\* C6: when a drag that exceeded the threshold is released, the schedule
\* carried by the committed event has exactly one 00:00 transition, strictly
\* increasing times and no duplicate times, for every release position.
\* ------------------------------------------------------------------------
C6_CommitIsNormalized ==
    (lastEvent.by = "release" /\ lastEvent.save = "true")
        => Normalized(lastEvent.transitions)

\* ------------------------------------------------------------------------
\* C7: throughout one gesture every move event changes only the transition
\* that was pressed, and every other transition of the day keeps its time and
\* temperature, also when the host applies each preview and the list is
\* re-ordered between move events.
\* ------------------------------------------------------------------------
Count(pair, pairs) == Cardinality({k \in 1..Len(pairs) : pairs[k] = pair})

\* the pairs of after are those of before with one from replaced by one to
ReplacesOne(before, after, from, to) ==
    /\ Len(after) = Len(before)
    /\ Count(from, before) > 0
    /\ \A k \in 1..Len(before) :
          LET pair == before[k]
          IN Count(pair, after) =
                 Count(pair, before) - (IF pair = from THEN 1 ELSE 0)
                                     + (IF pair = to THEN 1 ELSE 0)

C7_OnlyPressedTransitionMoves ==
    [][(nEvents' > nEvents /\ lastEvent'.by = "move")
        => ReplacesOne(Pairs(CurrentDay), Pairs(lastEvent'.transitions),
                       g.target, g'.target)]_vars

\* ------------------------------------------------------------------------
\* C8: a touchcancel during a gesture behaves like an uncommitted release:
\* the gesture returns to Idle, no committed event is emitted, and the day's
\* schedule equals its value before the press.
\* ------------------------------------------------------------------------
C8_CancelDiscards ==
    [][(g.ended = "no" /\ g'.ended = "touchcancel")
        => /\ draggingPoint' = NoPoint /\ ~isDragging'
           /\ nEvents' = nEvents
           /\ (~g.foreign => schedule'[selectedDay] = g.pressDay)]_vars

\* ------------------------------------------------------------------------
\* C9: a new press (mousedown or touchstart on any marker) while the gesture
\* is Dragging is ignored: the dragged transition, the recorded start
\* position and the Dragging state are unchanged.
\* ------------------------------------------------------------------------
C9_PressWhileDraggingIgnored ==
    [][(/\ draggingPoint # NoPoint /\ isDragging
        /\ \E i \in PointIndexes, p \in PressPoints :
               handlePointMouseDown(i, p) \/ handlePointTouchStart(i, p))
        => UNCHANGED <<draggingPoint, dragStartX, dragStartY, isDragging>>]_vars

\* ------------------------------------------------------------------------
\* C10: each completed edit in the graph view (a drag released after
\* exceeding the threshold, an accepted add, an accepted delete) emits
\* exactly one save=true event, and save=false events are emitted only while
\* the gesture is Dragging.
\* ------------------------------------------------------------------------
C10_OneCommitPerEdit ==
    /\ [](g.commits <= 1)
    /\ [][/\ (g.ended = "no" /\ g'.ended # "no")
               => /\ g'.commits = (IF g.previews > 0 THEN 1 ELSE 0)
                  /\ nEvents' = nEvents + g'.commits
                  /\ (g'.commits = 1 => lastEvent'.save = "true")
          /\ (~disabled /\ Len(CurrentDay) < 6 /\ addTransition)
               => /\ nEvents' = nEvents + 1
                  /\ lastEvent'.by = "add" /\ lastEvent'.save = "true"
          /\ (\E i \in 1..(Len(CurrentDay) - 1) :
                  ~disabled /\ removeTransitionAtIndex(i))
               => /\ nEvents' = nEvents + 1
                  /\ lastEvent'.by = "remove" /\ lastEvent'.save = "true"
          /\ (nEvents' > nEvents /\ lastEvent'.save = "false")
               => (draggingPoint' # NoPoint /\ isDragging')]_vars

\* ------------------------------------------------------------------------
\* C11: a preview is never persisted: no schedule sent to the device by a
\* save contains a time or temperature that came only from preview events of
\* a gesture that did not end in a committed event.
\* ------------------------------------------------------------------------
Tokens(dayString) == {dayString[k] : k \in 1..Len(dayString)}

C11_PreviewNeverPersisted ==
    [][(/\ saveSchedule
        /\ g.pressPoint # NoPoint /\ g.ended # "no"
        /\ g.previews > 0 /\ g.commits = 0)
        => LET previewed == Token(g.target[1], formatTemperature(g.target[2]))
           IN previewed \in Tokens(sent'[selectedDay])
                  => previewed \in Tokens(serializeDaySchedule(g.pressDay))]_vars

\* ------------------------------------------------------------------------
\* C12: every time a drag assigns to a non-anchor transition is a valid time
\* of day within [00:00, 23:59] on the 15-minute grid, for every pointer
\* position, also outside the plot area.
\* ------------------------------------------------------------------------
C12_DragTimeIsValid ==
    (hit # NoHit /\ ptr.index # 0)
        => /\ hit.time.h \in 0..23
           /\ hit.time.m \in {0, 15, 30, 45}

\* ------------------------------------------------------------------------
\* C13: every temperature a drag assigns is a multiple of 0.5 within
\* [4, 35], for every pointer position and every dynamic axis range.
\* ------------------------------------------------------------------------
C13_DragTemperatureOnGrid ==
    hit # NoHit
        => /\ hit.temperature % 50 = 0
           /\ hit.temperature >= 400
           /\ hit.temperature <= 3500

\* a pointer above the chart of a day whose axis ends at 35: the value is
\* held at 35
C13_Witness ==
    /\ hit # NoHit
    /\ ptr.y < PAD_TOP
    /\ getTempRange(CurrentDay).max = TEMP_ABSOLUTE_MAX
    /\ hit.temperature = Deg(35)

\* ------------------------------------------------------------------------
\* C14: the anchor transition is never removable: a delete request aimed at
\* the 00:00 transition, in the graph view or in the day editor, leaves the
\* (time, temperature) pairs of the day unchanged.
\* ------------------------------------------------------------------------
C14_AnchorNotRemovable ==
    [][/\ removeTransitionAtIndex(0)
            => Pairs(schedule'[selectedDay]) = Pairs(schedule[selectedDay])
       /\ (/\ editingDay # NoDay
           /\ workingSchedule # <<>>
           /\ workingSchedule[1].time = MIDNIGHT
           /\ EditorDelete(0))
            => /\ Pairs(workingSchedule') = Pairs(workingSchedule)
               /\ Pairs(schedule'[editingDay]) = Pairs(schedule[editingDay])]_vars

\* ------------------------------------------------------------------------
\* C17: every schedule the day editor emits after an add, update or delete
\* has exactly one 00:00 transition and strictly increasing times without
\* duplicates, for every normalized working copy and every valid time.
\* ------------------------------------------------------------------------
C17_EditorEmitsNormalized ==
    [][(/\ nEvents' > nEvents
        /\ lastEvent'.by = "editor"
        /\ Normalized(workingSchedule))
            => Normalized(lastEvent'.transitions)]_vars

\* ------------------------------------------------------------------------
\* C15: for every day string, the normalized result of the parse contains
\* at most 6 transitions, whatever the number of distinct valid times in the
\* input.
\* ------------------------------------------------------------------------
C15_ParseAtMostSix == stage = "parsed" => Len(day) <= 6

ValidTimes(dayString) ==
    {dayString[k].time : k \in {j \in 1..Len(dayString) : dayString[j].kind = "ok"}}

\* C15 as amended: the normalized result of the parse holds exactly one
\* transition for each distinct valid time of the input and for 00:00, so at
\* most 6 transitions exactly when these times are at most 6.
C15_ParseOnePerDistinctTime ==
    stage = "parsed"
        => /\ Len(day) = Cardinality(ValidTimes(text) \cup {MIDNIGHT})
           /\ \A t \in ValidTimes(text) \cup {MIDNIGHT} :
                  Cardinality({k \in 1..Len(day) : day[k].time = t}) = 1

\* a day string of more than 6 tokens with 6 distinct times
C15_Witness ==
    /\ stage = "parsed"
    /\ Len(text) > 6
    /\ Cardinality(ValidTimes(text)) = 6
    /\ Len(day) = 6

\* ------------------------------------------------------------------------
\* C16: starting from a day with at most 6 transitions, after any sequence
\* of add, drag, delete and update operations in the graph view and the day
\* editor, every schedule emitted for that day has at most 6 transitions.
\* ------------------------------------------------------------------------
C16_EmittedAtMostSix ==
    /\ Len(lastEvent.transitions) <= 6
    /\ \A d \in Days : Len(schedule[d]) <= 6
    /\ Len(workingSchedule) <= 6

\* the day was filled to 6 transitions, a later operation emitted the full
\* day again and an add was refused on it
C16_Witness ==
    /\ nEvents > 1
    /\ lastEvent.by \notin {"none", "add"}
    /\ Len(lastEvent.transitions) = 6
    /\ \E v \in {"graph", "editor"} :
          lastAdd[v] = [asked |-> TRUE, len |-> 6, emitted |-> FALSE]

\* ------------------------------------------------------------------------
\* C18: a transition keeps its identifier across a drag: in every preview
\* and in the commit, the moved transition carries the id it had at the
\* press, and all other transitions keep their ids.
\* ------------------------------------------------------------------------
IdsOf(transitions) == {transitions[k].id : k \in 1..Len(transitions)}

FirstOccurrences(transitions) ==
    {k \in 1..Len(transitions) :
        \A j \in 1..(k - 1) : transitions[j].time # transitions[k].time}

C19_DedupKeepsFirst ==
    stage = "deduped"
        => LET first == FirstOccurrences(srcDay)
           IN /\ Len(day) = Cardinality(first)
              /\ \A k \in first :
                    LET rank == Cardinality({j \in first : j <= k})
                    IN /\ day[rank].time = srcDay[k].time
                       /\ day[rank].temperature = srcDay[k].temperature

\* a later transition with a time already seen and another temperature was
\* dropped, and the survivors are not in chronological order
C19_Witness ==
    /\ stage = "deduped"
    /\ Len(srcDay) = 3 /\ Len(day) = 2
    /\ srcDay[3].time = srcDay[1].time
    /\ srcDay[3].temperature # srcDay[1].temperature
    /\ Minutes(day[1].time) > Minutes(day[2].time)

\* ------------------------------------------------------------------------
\* C20: ensureMidnightTransition: if the input has no 00:00 transition, the
\* result is the input's transitions plus one 00:00 transition at exactly
\* 20 degrees, whatever the neighbouring temperatures, in chronological
\* order; if the input has a 00:00 transition, no transition is added and
\* its temperature is unchanged.
\* ------------------------------------------------------------------------
SameBag(pairs, others) ==
    /\ Len(pairs) = Len(others)
    /\ \A k \in 1..Len(pairs) : Count(pairs[k], pairs) = Count(pairs[k], others)

C20_EnsureAnchor ==
    stage = "anchored"
        => IF MidnightCount(srcDay) = 0
           THEN /\ SameBag(Pairs(day), <<<<MIDNIGHT, Deg(20)>>>> \o Pairs(srcDay))
                /\ Pairs(day)[1] = <<MIDNIGHT, Deg(20)>>
                /\ \A k \in 1..(Len(day) - 1) :
                      Minutes(day[k].time) <= Minutes(day[k + 1].time)
           ELSE SameBag(Pairs(day), Pairs(srcDay))

\* a day without 00:00 whose transitions are not at 20 degrees and not in
\* chronological order got its anchor
C20_Witness ==
    /\ stage = "anchored"
    /\ Len(srcDay) = 2 /\ Len(day) = 3
    /\ Minutes(srcDay[1].time) > Minutes(srcDay[2].time)
    /\ srcDay[1].temperature # Deg(20) /\ srcDay[2].temperature # Deg(20)
    /\ day[1].temperature = Deg(20)

\* ------------------------------------------------------------------------
\* C21: parseDaySchedule removes duplicates in arrival order before it
\* sorts: when several tokens share a time, the returned day carries the
\* temperature of the first such token of the input string, wherever that
\* time falls after sorting, and the anchor is inserted afterwards if
\* missing.
\* ------------------------------------------------------------------------
\* the position of the first matching token with the time t
FirstTokenAt(dayString, t) ==
    CHOOSE k \in 1..Len(dayString) :
        /\ dayString[k].kind = "ok" /\ dayString[k].time = t
        /\ \A j \in 1..(k - 1) :
              dayString[j].kind = "ok" => dayString[j].time # t

C21_ParseFirstTokenWins ==
    (stage \in {"parsed", "reparsed"} /\ ValidTimes(text) # {})
        => /\ \A t \in ValidTimes(text) :
                 \E k \in 1..Len(day) :
                    /\ day[k].time = t
                    /\ day[k].temperature
                          = parseFloat(text[FirstTokenAt(text, t)].temp)
                    /\ \A j \in 1..Len(day) : day[j].time = t => j = k
           /\ MIDNIGHT \notin ValidTimes(text)
                 => /\ Pairs(day)[1] = <<MIDNIGHT, Deg(20)>>
                    /\ Len(day) = Cardinality(ValidTimes(text)) + 1
           /\ StrictlyIncreasing(day)

\* the repeated time is the latest of the day, its first token comes first
\* in the string and the two tokens differ in temperature
C21_Witness ==
    /\ stage = "parsed"
    /\ Len(text) = 3
    /\ text[1] = Token(Time(22, 0), TempText(18, <<2, 5>>))
    /\ text[2].kind = "ok" /\ text[2].time = Time(6, 0)
    /\ text[3] = Token(Time(22, 0), TempText(20, <<5>>))
    /\ Pairs(day) = <<<<MIDNIGHT, Deg(20)>>, <<Time(6, 0), parseFloat(text[2].temp)>>,
                      <<Time(22, 0), 1825>>>>

\* ------------------------------------------------------------------------
\* C22: parseDaySchedule never fails: tokens that do not match
\* HH:MM/temperature are skipped while every matching token is kept, and
\* when no token matches (an empty string included) the result is the
\* default day, a single 00:00 transition at 20 degrees.
\* ------------------------------------------------------------------------
TimesOf(transitions) == {transitions[k].time : k \in 1..Len(transitions)}

C22_ParseIsLenient ==
    stage = "parsed"
        => IF ValidTimes(text) = {}
           THEN Pairs(day) = <<<<MIDNIGHT, Deg(20)>>>>
           ELSE /\ TimesOf(day) = ValidTimes(text) \cup {MIDNIGHT}
                /\ \A k \in 1..Len(text) :
                      (text[k].kind = "ok" /\ FirstTokenAt(text, text[k].time) = k)
                          => \E j \in 1..Len(day) :
                                Pairs(day)[j] = <<text[k].time, parseFloat(text[k].temp)>>

\* a malformed token between two matching tokens of a day without 00:00
C22_Witness ==
    /\ stage = "parsed"
    /\ Len(text) = 3
    /\ text[1].kind = "ok" /\ text[2].kind = "bad" /\ text[3].kind = "ok"
    /\ text[1].time # text[3].time
    /\ MIDNIGHT \notin ValidTimes(text)
    /\ Len(day) = 3

\* ------------------------------------------------------------------------
\* C23: a decoded weekly schedule always has all day keys: a day whose
\* string is missing, empty or without a valid token becomes the default
\* day, while the other days are decoded from their own strings; the weekly
\* decode does not fail as a whole.
\* ------------------------------------------------------------------------
C23_WeekDecodedPerDay ==
    (stage = "loaded" /\ \A d \in Days : sensors[d].exists)
        => /\ schedule # NullSchedule
           /\ \A d \in Days :
                 IF isInvalidSensorState(sensors[d]) \/ ValidTimes(sensors[d].state) = {}
                 THEN Pairs(schedule[d]) = <<<<MIDNIGHT, Deg(20)>>>>
                 ELSE /\ TimesOf(schedule[d])
                            = ValidTimes(sensors[d].state) \cup {MIDNIGHT}
                      /\ \A t \in ValidTimes(sensors[d].state) :
                            \E k \in 1..Len(schedule[d]) :
                               Pairs(schedule[d])[k]
                                 = <<t, parseFloat(sensors[d].state[
                                            FirstTokenAt(sensors[d].state, t)].temp)>>

\* ------------------------------------------------------------------------
\* C24: serializeDaySchedule emits exactly one token per distinct time of
\* the day, carrying the temperature of the first transition with that
\* time, the tokens in chronological order, each as HH:MM/temp with the
\* temperature printed without a decimal point when it is integral and
\* with exactly one decimal place otherwise.
\* ------------------------------------------------------------------------
C24_SerializeFormat ==
    stage = "serialized"
        => /\ Len(text) = Cardinality(TimesOf(srcDay))
           /\ \A k \in 1..Len(text) : text[k].kind = "ok"
           /\ \A k \in 1..(Len(text) - 1) :
                 Minutes(text[k].time) < Minutes(text[k + 1].time)
           /\ \A j \in FirstOccurrences(srcDay) :
                 \E k \in 1..Len(text) :
                    LET temp == srcDay[j].temperature
                        printed == text[k].temp
                    IN /\ text[k].time = srcDay[j].time
                       /\ IF temp % 100 = 0
                          THEN printed = TempText(temp \div 100, <<>>)
                          ELSE /\ Len(printed.f) = 1
                               /\ parseFloat(printed) - temp \in (0 - 5)..5

\* a day out of order with a repeated time, an integral and a fractional
\* temperature
C24_Witness ==
    /\ stage = "serialized"
    /\ Len(srcDay) = 3 /\ Len(text) = 2
    /\ Pairs(srcDay) = <<<<Time(22, 0), 2050>>, <<Time(6, 0), Deg(20)>>,
                         <<Time(22, 0), Deg(4)>>>>
    /\ text = <<Token(Time(6, 0), TempText(20, <<>>)),
                Token(Time(22, 0), TempText(20, <<5>>))>>

\* ------------------------------------------------------------------------
\* C25: for every hour in [0, 24] and every temperature in [4, 35] on the
\* half-degree grid, and for every axis range getTempRange returns,
\* xToHour(hourToX(h)) = h and yToTemp(tempToY(t)) = t.
\* ------------------------------------------------------------------------
C25_ChartRoundTrip ==
    stage = "back"
        => LET hour == timeToHours(hit.time)
               back == xToHour(ptr.x, VIEWBOX_WIDTH)
           IN /\ back.num * hour.den = hour.num * back.den
              /\ day[1].time = hit.time
              /\ day[1].temperature = hit.temperature

\* 35 degrees on a day whose axis ends at 12: the marker lies above the
\* chart area and is read back as 35
C25_Witness ==
    /\ stage = "back"
    /\ getTempRange(CurrentDay).max < TEMP_ABSOLUTE_MAX
    /\ hit.temperature = Deg(TEMP_ABSOLUTE_MAX)
    /\ ptr.y.num < PAD_TOP * ptr.y.den
    /\ day[1].temperature = Deg(TEMP_ABSOLUTE_MAX)

\* ------------------------------------------------------------------------
\* C26: for every day whose temperatures lie in [4, 35], the range returned
\* by getTempRange lies within [4, 35] and spans at least 10 degrees.
\* ------------------------------------------------------------------------
C26_TempRangeSpan ==
    (/\ stage = "back"
     /\ \A k \in 1..Len(CurrentDay) :
           /\ CurrentDay[k].temperature >= Deg(TEMP_ABSOLUTE_MIN)
           /\ CurrentDay[k].temperature <= Deg(TEMP_ABSOLUTE_MAX))
        => LET range == getTempRange(CurrentDay)
           IN /\ range.min >= TEMP_ABSOLUTE_MIN
              /\ range.max <= TEMP_ABSOLUTE_MAX
              /\ range.max - range.min >= 10

\* ------------------------------------------------------------------------
\* C27: in the day editor every add below the cap, update and delete
\* dispatches its schedule-changed event whatever validateDaySchedule
\* reports: each step that changes the open editor's working copy, other
\* than an event of the graph view, emits one event that carries exactly the
\* new working copy, and the card stores it.
\* ------------------------------------------------------------------------
C27_EditorDispatchesAlways ==
    [][(/\ editingDay # NoDay
        /\ editingDay' = editingDay
        /\ workingSchedule' # workingSchedule
        /\ nEvents' # nEvents => lastEvent'.by = "editor")
          => /\ nEvents' = nEvents + 1
             /\ lastEvent'.day = editingDay
             /\ lastEvent'.transitions = workingSchedule'
             /\ schedule'[editingDay] = workingSchedule']_vars

\* the editor has emitted a day for which validateDaySchedule reports a
\* violation
C27_Witness ==
    /\ editingDay # NoDay
    /\ nEvents > 0
    /\ lastEvent.by = "editor"
    /\ lastEvent.transitions = workingSchedule
    /\ ~validateDaySchedule(lastEvent.transitions)

\* ------------------------------------------------------------------------
\* C28: in every state where the graph view's disabled flag is true, no
\* input (day button, press, move, release, add, double-activation) emits a
\* schedule-changed event or changes the selected day.
\* ------------------------------------------------------------------------
C28_DisabledIsInert ==
    [][disabled => (nEvents' = nEvents /\ selectedDay' = selectedDay)]_vars

\* ------------------------------------------------------------------------
\* C29: at most one save is in flight at any time: a call of _saveSchedule
\* while _saving is true publishes nothing and changes nothing of the card's
\* state.
\* ------------------------------------------------------------------------
C29_SaveWhileSavingIgnored ==
    [][(saving /\ nEvents' = nEvents /\ lastSave' \in {"started", "ignored"})
          => UNCHANGED <<saving, error, pendingSaveSchedule, mqttSchedule,
                         published, sent, hasUnsavedChanges, schedule>>]_vars

\* _saveSchedule was called during a save of a schedule that an edit has
\* since changed
C29_Witness ==
    /\ saving
    /\ lastSave = "ignored"
    /\ published = 1
    /\ serializeWeeklySchedule(schedule) # pendingSaveSchedule

\* ------------------------------------------------------------------------
\* C30: every started save ends with _saving false.  When it succeeds every
\* day was published, hasUnsavedChanges is false and the error is cleared;
\* when it fails the error holds the failure message, hasUnsavedChanges keeps
\* its value and the pending-save marker is cleared.
\* ------------------------------------------------------------------------
C30_SaveTerminates ==
    /\ saving ~> ~saving
    /\ [][(saving /\ ~saving')
            => \/ /\ lastSave' = "saved"
                  /\ published' = Len(DAYS_OF_WEEK)
                  /\ sent' = mqttSchedule'
                  /\ ~hasUnsavedChanges'
                  /\ error' = NoError
               \/ /\ lastSave' = "failed"
                  /\ error' = SaveFailed
                  /\ hasUnsavedChanges' = hasUnsavedChanges
                  /\ pendingSaveSchedule' = NoSent]_vars

\* a save has failed after its first publish, with unsaved changes kept
C30_Witness ==
    /\ ~saving
    /\ lastSave = "failed"
    /\ error = SaveFailed
    /\ hasUnsavedChanges
    /\ published = 1
    /\ pendingSaveSchedule = NoSent

\* ------------------------------------------------------------------------
\* C31: the document listeners are attached on a press and all removed on
\* every path back to Idle: in every reachable state where no marker is
\* pressed (draggingPoint is null) neither the mouse listeners nor the touch
\* listeners remain attached.
\* ------------------------------------------------------------------------
C31_IdleHasNoListeners ==
    draggingPoint = NoPoint => (~mouseListening /\ ~touchListening)

\* ------------------------------------------------------------------------
\* C32: normalization is deferred until release: a preview emitted while
\* Dragging keeps every transition at the array position it had at the press
\* (no sort, no dedup); only the pressed position's time and temperature
\* differ from the day at the press.
\* ------------------------------------------------------------------------
C32_PreviewKeepsPositions ==
    [][(nEvents' > nEvents /\ lastEvent'.save = "false")
        => /\ Len(lastEvent'.transitions) = Len(g'.pressDay)
           /\ \A k \in 1..Len(g'.pressDay) :
                 k # g'.pressPoint + 1
                    => Pairs(lastEvent'.transitions)[k] = Pairs(g'.pressDay)[k]]_vars

\* ------------------------------------------------------------------------
\* C37: with the host applying each preview, a move event is idempotent in
\* the pointer position: after a move at a position has emitted a preview, a
\* second move at the same position gives the dragged transition the same
\* time and temperature, although getTempRange is computed from the updated
\* day.
\* ------------------------------------------------------------------------
C37_MoveIdempotent ==
    [][\A p \in MovePoints :
          (/\ handleMouseMove(p) \/ handleTouchMove(p)
           /\ nEvents' > nEvents
           /\ lastEvent'.by = "move")
            => LET again == DraggedTransitions(CurrentDay', draggingPoint', p)
               IN Pairs(again)[draggingPoint' + 1] = g'.target]_vars

\* ------------------------------------------------------------------------
\* C33: the gesture goes from Armed to Dragging only when the pointer is
\* more than 5px away from the press position; a move at any distance up to
\* and including 5px leaves it Armed and emits and changes nothing.
\* ------------------------------------------------------------------------
C33_ThresholdIsStrict ==
    [][\A p \in ThresholdPoints :
          (/\ draggingPoint # NoPoint /\ ~isDragging
           /\ Dist2(p) <= DRAG_THRESHOLD * DRAG_THRESHOLD
           /\ handleMouseMove(p) \/ handleTouchMove(p))
            => /\ ~isDragging'
               /\ nEvents' = nEvents
               /\ schedule' = schedule]_vars

\* ------------------------------------------------------------------------
\* C34: all schedule-changed events of one gesture (previews and commit)
\* carry the day that was selected at the press, and the gesture changes
\* only that day's transitions, whatever day buttons are pressed meanwhile.
\* ------------------------------------------------------------------------
C34_GestureKeepsDay ==
    [][(nEvents' > nEvents /\ lastEvent'.by \in {"move", "release"})
        => /\ lastEvent'.day = g'.day
           /\ \A d \in Days : d # g'.day => schedule'[d] = schedule[d]]_vars

\* ------------------------------------------------------------------------
\* C38: a graph-view add on a normalized day with fewer than 6 transitions
\* (valid HH:MM times at any minute) emits a normalized schedule with exactly
\* one more transition, and the new transition's time is a valid HH:MM in
\* [00:00, 23:59] that differs from every existing time.
\* ------------------------------------------------------------------------
C38_AddEmitsNormalized ==
    [][(/\ addOnce
        /\ ~disabled
        /\ Normalized(CurrentDay)
        /\ Len(CurrentDay) < MAX_TRANSITIONS)
          => LET new == NewGraphTransition(CurrentDay)
             IN /\ nEvents' = nEvents + 1
                /\ Len(lastEvent'.transitions) = Len(CurrentDay) + 1
                /\ Normalized(lastEvent'.transitions)
                /\ isValidTime(new.time)
                /\ \A k \in 1..Len(CurrentDay) : CurrentDay[k].time # new.time]_vars

\* ------------------------------------------------------------------------
\* C35: whenever no save is in flight and hasUnsavedChanges is false, the
\* card's weekly schedule is the one last loaded from the sensors or the one
\* last sent to the device by a successful save, also when schedule-changed
\* events arrive during a save.
\* ------------------------------------------------------------------------
C35_CleanMeansSynced ==
    (~saving /\ ~hasUnsavedChanges)
        => \/ \A d \in Days :
                 Pairs(schedule[d]) = Pairs(parseDaySchedule(sensors[d].state, 0))
           \/ /\ lastSave = "saved"
              /\ serializeWeeklySchedule(schedule) = sent

\* ------------------------------------------------------------------------
\* C36: after a successful save, while the pending-save marker is set no
\* sensor update reloads the card's schedule; the marker is cleared exactly
\* when every day sensor's state equals the saved string of its day; from
\* then on a changed day sensor triggers a reload again.
\* ------------------------------------------------------------------------
C36_PendingBlocksReload ==
    [][/\ (~saving /\ pendingSaveSchedule # NoSent /\ pendingSaveSchedule' = NoSent)
            => \A d \in Days : sensors'[d].state = pendingSaveSchedule[d]
       /\ \A newStates \in HassUpdates :
             updated(newStates)
                => /\ pendingSaveSchedule # NoSent
                      => UNCHANGED <<schedule, hasUnsavedChanges, error>>
                   /\ (~saving /\ pendingSaveSchedule # NoSent)
                      => IF \A d \in Days : newStates[d].state = pendingSaveSchedule[d]
                         THEN pendingSaveSchedule' = NoSent
                         ELSE pendingSaveSchedule' = pendingSaveSchedule
                   /\ (/\ ~saving /\ pendingSaveSchedule = NoSent
                       /\ \E d \in Days : newStates[d].state # sensors[d].state)
                      => /\ schedule' = getScheduleFromSensor(newStates, transitionIdCounter)
                         /\ ~hasUnsavedChanges']_vars

\* a save succeeded, the sensors caught up and the marker was cleared, then
\* Monday's sensor changed externally and the card shows the external day
C36_Witness ==
    /\ lastSave = "saved"
    /\ ~saving
    /\ pendingSaveSchedule = NoSent
    /\ sent["monday"] # External
    /\ sensors["monday"] = Sensor(External)
    /\ sensors["tuesday"] = Sensor(sent["tuesday"])
    /\ Pairs(schedule["monday"]) = Pairs(parseDaySchedule(External, 0))
    /\ ~hasUnsavedChanges

====
